---------------------------- MODULE Spec2Model ----------------------------
(***************************************************************************)
(* A model of the joint topology classifier and of the joint lifecycle of  *)
(* compas_timber (connections/solver.py, butt_joint.py, t_butt.py,         *)
(* l_butt.py, l_miter.py, french_ridge_lap.py).                            *)
(*                                                                         *)
(* Geometry is exact rational arithmetic over an integer lattice: a        *)
(* rational is a numerator and a positive denominator, a length is kept as *)
(* its square, and every comparison against a tolerance is carried out on  *)
(* integers.                                                               *)
(***************************************************************************)
EXTENDS Integers, Naturals, Sequences, FiniteSets, TLC

(***************************************************************************)
(* Bounds of the model.                                                    *)
(***************************************************************************)
\* beam endpoints have x in 0..MaxX and y in 0..MaxY
MaxX == 2
MaxY == 1
\* beam_b lies in the plane z = lift, lift in 0..MaxLift; beam_a in z = 0
MaxLift == 1
\* max_distance is None or one of 1..MaxDist
MaxDist == 1

\* a joint invokes add_extensions / add_features at most MaxCalls times in all
MaxCalls == 3
\* Beam.extension_to_plane gives a distance among 0..MaxExt (whole units)
MaxExt == 1

VARIABLES
    args,      \* the arguments of the function being evaluated
    result,    \* what it returned (or the error it raised)
    pc,        \* "call" before the evaluation, "done" after it
    features,          \* Beam.features: beam key -> the attached feature objects
    blank_extensions,  \* Beam._blank_extensions: beam key -> joint key -> (start, end)
    joint,             \* joint key -> the attributes of that joint
    geometry,          \* what the geometry of the assembly answers to the joints
    log                \* history: the invocations made so far, with their outcome

fvars == <<args, result, pc>>
jvars == <<features, blank_extensions, joint, geometry, log>>
vars == <<args, result, pc, features, blank_extensions, joint, geometry, log>>

\* no assembly: a function is being evaluated on its own
NoAssembly ==
    /\ features = <<>>
    /\ blank_extensions = <<>>
    /\ joint = <<>>
    /\ geometry = <<>>
    /\ log = <<>>

None == "None"

(***************************************************************************)
(* Vectors and rationals.                                                  *)
(***************************************************************************)
Abs(x) == IF x < 0 THEN -x ELSE x

RECURSIVE GCD(_, _)
GCD(m, n) == IF n = 0 THEN m ELSE GCD(n, m % n)

\* compas.geometry.subtract_vectors
subtract_vectors(u, v) == <<u[1] - v[1], u[2] - v[2], u[3] - v[3]>>

\* compas.geometry.add_vectors
add_vectors(u, v) == <<u[1] + v[1], u[2] + v[2], u[3] + v[3]>>

\* compas.geometry.scale_vector
scale_vector(u, k) == <<u[1] * k, u[2] * k, u[3] * k>>

\* compas.geometry.dot_vectors
dot_vectors(u, v) == u[1] * v[1] + u[2] * v[2] + u[3] * v[3]

\* compas.geometry.cross_vectors
cross_vectors(u, v) ==
    <<u[2] * v[3] - u[3] * v[2], u[3] * v[1] - u[1] * v[3], u[1] * v[2] - u[2] * v[1]>>

\* the squared length of a vector
length_sq(u) == dot_vectors(u, u)

\* a rational n/d in lowest terms with d > 0
Rat(n, d) ==
    LET g == GCD(Abs(n), Abs(d))
        s == IF d < 0 THEN -1 ELSE 1
    IN  [n |-> (s * n) \div g, d |-> (s * d) \div g]

\* a point with rational coordinates: the lattice vector n over the denominator d
RPoint(n, d) == [n |-> n, d |-> d]

\* the squared distance of two rational points, as a rational
\* (compas.geometry.distance_point_point, squared)
distance_sq(p, q) ==
    LET g == GCD(p.d, q.d)
        l == (p.d \div g) * q.d
        v == subtract_vectors(scale_vector(p.n, l \div p.d), scale_vector(q.n, l \div q.d))
        \* |v|^2 / l^2, with a common factor of |v|^2 and l taken out
        h == GCD(length_sq(v), l)
    IN  [n |-> length_sq(v) \div h, d |-> (l \div h) * l]

(***************************************************************************)
(* ConnectionSolver                                                        *)
(***************************************************************************)
\* TOLERANCE = 1e-6, kept as its inverse
TolInv == 1000000

\* angtol = 1e-3, kept as its inverse
AngTolInv == 1000

TOPO_UNKNOWN == 0
TOPO_I == 1
TOPO_L == 2
TOPO_T == 3
TOPO_X == 4

\* d > tol for d*d = d2.n / d2.d:  d2.n * TolInv^2 > d2.d
ExceedsTol(d2) ==
    /\ d2.n > 0
    /\ ((d2.d \div d2.n) \div TolInv) < TolInv

\* ConnectionSolver._exceed_max_distance, on the squared distance
_exceed_max_distance(pa, pb, max_distance) ==
    LET d2 == distance_sq(pa, pb)
    IN  IF max_distance.given
        THEN d2.n > max_distance.v * max_distance.v * d2.d
        ELSE ExceedsTol(d2)

\* sqrt(X/Y) < m + tol, for integers X >= 0, 0 < Y < TolInv, m >= 0:
\* X/Y < m*m + 2*m*tol + tol*tol, which on integers is
\* X - m*m*Y <= (2*m*Y) \div TolInv
LtTol(X, Y, m) ==
    \/ X <= m * m * Y
    \/ X - m * m * Y <= (2 * m * Y) \div TolInv

\* abs(t) * length < max_distance + tol, for a numerator k of t = k/d
NearLt(k, d, len2, m) == LtTol(k * k * len2, d * d, m)

\* a variant that compares the parameter itself, not the distance along the beam
_is_near_end_unscaled(t, len2, max_distance) ==
    \/ NearLt(t.n, t.d, 1, max_distance)
    \/ NearLt(t.d - t.n, t.d, 1, max_distance)
\* ConnectionSolver._is_near_end
_is_near_end(t, len2, max_distance) ==
    \/ NearLt(t.n, t.d, len2, max_distance)
    \/ NearLt(t.d - t.n, t.d, len2, max_distance)

\* ConnectionSolver._calc_t: the parameter on `line` where it crosses `plane`
_calc_t(a, b, o, n) ==
    LET ab == subtract_vectors(b, a)
        dotv == dot_vectors(n, ab)
        oa == subtract_vectors(a, o)
    IN  Rat(-dot_vectors(n, oa), dotv)

\* ang < angtol or ang > pi - angtol, for the angle of va and vb:
\* sin(ang)^2 = |va x vb|^2 / (|va|^2 |vb|^2) < angtol^2
IsParallel(va, vb) ==
    LET c2 == length_sq(cross_vectors(va, vb))
        P == length_sq(va) * length_sq(vb)
    IN  c2 <= ((P - 1) \div AngTolInv) \div AngTolInv

\* angle_vectors(vA, vB) < tol: the vectors point the same way within tol
SameDirection(vA, vB) ==
    LET c2 == length_sq(cross_vectors(vA, vB))
        P == length_sq(vA) * length_sq(vB)
    IN  /\ dot_vectors(vA, vB) > 0
        /\ c2 <= (((P - 1) \div TolInv) \div TolInv)

\* compas.geometry.closest_point_on_line: the foot of p on the line through a, b
closest_point_on_line(p, a, b) ==
    LET ab == subtract_vectors(b, a)
        l2 == length_sq(ab)
        k == dot_vectors(subtract_vectors(p, a), ab)
    IN  RPoint(add_vectors(scale_vector(a, l2), scale_vector(ab, k)), l2)

comb == <<<<0, 0>>, <<0, 1>>, <<1, 0>>, <<1, 1>>>>

Unknown == [topo |-> TOPO_UNKNOWN, main |-> None, cross |-> None]

\* the indices of comb whose end points meet
MeetingEnds(a1, a2, b1, b2, max_distance) ==
    {i \in 1..4 :
        ~ _exceed_max_distance(RPoint(<<a1, a2>>[comb[i][1] + 1], 1),
                               RPoint(<<b1, b2>>[comb[i][2] + 1], 1), max_distance)}

\* find_topology_parallel without the overlap test of its last step
find_topology_parallel_no_overlap_test(a1, a2, b1, b2, max_distance) ==
    LET pa == RPoint(a1, 1)
        pb == closest_point_on_line(a1, b1, b2)
        meet == MeetingEnds(a1, a2, b1, b2, max_distance)
    IN  IF _exceed_max_distance(pa, pb, max_distance) THEN Unknown
        ELSE IF Cardinality(meet) # 1 THEN Unknown
        ELSE [topo |-> TOPO_I, main |-> "a", cross |-> "b"]

\* find_topology, parallel centerlines (solver.py 170-196)
find_topology_parallel(a1, a2, b1, b2, max_distance) ==
    LET pa == RPoint(a1, 1)
        pb == closest_point_on_line(a1, b1, b2)
        meet == MeetingEnds(a1, a2, b1, b2, max_distance)
    IN  IF _exceed_max_distance(pa, pb, max_distance) THEN Unknown
        ELSE IF Cardinality(meet) # 1 THEN Unknown
        ELSE LET i == CHOOSE j \in meet : TRUE
                 ia == comb[i][1]
                 ib == comb[i][2]
                 pa1 == <<a1, a2>>[ia + 1]
                 pa2 == <<a1, a2>>[(1 - ia) + 1]
                 pb1 == <<b1, b2>>[ib + 1]
                 pb2 == <<b1, b2>>[(1 - ib) + 1]
                 vA == subtract_vectors(pa2, pa1)
                 vB == subtract_vectors(pb2, pb1)
             IN  IF SameDirection(vA, vB) THEN Unknown
                 ELSE [topo |-> TOPO_I, main |-> "a", cross |-> "b"]

\* a variant that does not limit the intersection point to the segment
ContactPoint_on_line(p1, p2, v, t) ==
    RPoint(add_vectors(scale_vector(p1, t.d), scale_vector(v, t.n)), t.d)
\* the contact point of a segment: the intersection point, limited to the segment
ContactPoint(p1, p2, v, t) ==
    IF t.n < 0 THEN RPoint(p1, 1)
    ELSE IF t.n > t.d THEN RPoint(p2, 1)
    ELSE RPoint(add_vectors(scale_vector(p1, t.d), scale_vector(v, t.n)), t.d)

\* find_topology_skew returning the beams of a T in input order
find_topology_skew_input_order(a1, a2, b1, b2, max_distance) ==
    LET va == subtract_vectors(a2, a1)
        vb == subtract_vectors(b2, b1)
        vn == cross_vectors(va, vb)
        vna == cross_vectors(va, vn)
        vnb == cross_vectors(vb, vn)
        ta == _calc_t(a1, a2, b1, vnb)
        tb == _calc_t(b1, b2, a1, vna)
        pa == ContactPoint(a1, a2, va, ta)
        pb == ContactPoint(b1, b2, vb, tb)
        md0 == IF max_distance.given THEN max_distance.v ELSE 0
        xa == _is_near_end(ta, length_sq(va), md0)
        xb == _is_near_end(tb, length_sq(vb), md0)
    IN  IF _exceed_max_distance(pa, pb, max_distance) THEN Unknown
        ELSE IF xa /\ xb THEN [topo |-> TOPO_L, main |-> "a", cross |-> "b"]
        ELSE IF xa \/ xb THEN [topo |-> TOPO_T, main |-> "a", cross |-> "b"]
        ELSE [topo |-> TOPO_X, main |-> "a", cross |-> "b"]

\* find_topology, centerlines not parallel (solver.py 198-238)
find_topology_skew(a1, a2, b1, b2, max_distance) ==
    LET va == subtract_vectors(a2, a1)
        vb == subtract_vectors(b2, b1)
        vn == cross_vectors(va, vb)
        vna == cross_vectors(va, vn)
        vnb == cross_vectors(vb, vn)
        ta == _calc_t(a1, a2, b1, vnb)
        tb == _calc_t(b1, b2, a1, vna)
        pa == ContactPoint(a1, a2, va, ta)
        pb == ContactPoint(b1, b2, vb, tb)
        md0 == IF max_distance.given THEN max_distance.v ELSE 0
        xa == _is_near_end(ta, length_sq(va), md0)
        xb == _is_near_end(tb, length_sq(vb), md0)
    IN  IF _exceed_max_distance(pa, pb, max_distance) THEN Unknown
        ELSE IF xa /\ xb THEN [topo |-> TOPO_L, main |-> "a", cross |-> "b"]
        ELSE IF xa THEN [topo |-> TOPO_T, main |-> "a", cross |-> "b"]
        ELSE IF xb THEN [topo |-> TOPO_T, main |-> "b", cross |-> "a"]
        ELSE [topo |-> TOPO_X, main |-> "a", cross |-> "b"]

\* ConnectionSolver.find_topology
find_topology(a1, a2, b1, b2, max_distance) ==
    IF IsParallel(subtract_vectors(a2, a1), subtract_vectors(b2, b1))
    THEN find_topology_parallel(a1, a2, b1, b2, max_distance)
    ELSE find_topology_skew(a1, a2, b1, b2, max_distance)

(***************************************************************************)
(* The classifier applied to every pair of lattice beams.                  *)
(***************************************************************************)
PointsAt(z) == {<<x, y, z>> : x \in 0..MaxX, y \in 0..MaxY}
\* max_distance: not given (None), or a distance
NoMaxDistance == [given |-> FALSE, v |-> 0]
MaxDistances == {NoMaxDistance} \cup {[given |-> TRUE, v |-> m] : m \in 1..MaxDist}

TopoArgs ==
    {[op |-> "find_topology", a1 |-> p[1], a2 |-> p[2], b1 |-> q[1], b2 |-> q[2],
      max_distance |-> m] :
        p \in {s \in PointsAt(0) \X PointsAt(0) : s[1] # s[2]},
        q \in UNION {{s \in PointsAt(z) \X PointsAt(z) : s[1] # s[2]} : z \in 0..MaxLift},
        m \in MaxDistances}

InitTopo ==
    /\ args \in TopoArgs
    /\ result = None
    /\ pc = "call"
    /\ NoAssembly

FindTopology ==
    /\ pc = "call"
    /\ args.op = "find_topology"
    /\ result' = find_topology(args.a1, args.a2, args.b1, args.b2, args.max_distance)
    /\ pc' = "done"
    /\ UNCHANGED <<args, jvars>>

NextTopo == FindTopology

SpecTopo == InitTopo /\ [][NextTopo]_vars

(***************************************************************************)
(* Geometry of a beam pair, from the closest-approach parameters of the    *)
(* two centerlines (independent of the solver's plane construction).       *)
(***************************************************************************)
\* the parameters s, u of the points of closest approach of the lines
\* a1 + s*va and b1 + u*vb (va, vb not parallel)
ClosestParams(a1, a2, b1, b2) ==
    LET va == subtract_vectors(a2, a1)
        vb == subtract_vectors(b2, b1)
        w == subtract_vectors(a1, b1)
        A == dot_vectors(va, va)
        B == dot_vectors(va, vb)
        C == dot_vectors(vb, vb)
        D == dot_vectors(va, w)
        E == dot_vectors(vb, w)
    IN  [s |-> Rat(B * E - C * D, A * C - B * B), u |-> Rat(A * E - B * D, A * C - B * B)]

\* the point of the segment p1 p2 nearest to the point at parameter t of its line
SegmentPoint(p1, p2, t) ==
    IF t.n < 0 THEN RPoint(p1, 1)
    ELSE IF t.n > t.d THEN RPoint(p2, 1)
    ELSE RPoint(add_vectors(scale_vector(p1, t.d - t.n), scale_vector(p2, t.n)), t.d)

\* the point at parameter t of the line p1 p2 is nearer than m + tol to p1 or to p2
EndTouches(p1, p2, t, m) ==
    LET x == RPoint(add_vectors(scale_vector(p1, t.d - t.n), scale_vector(p2, t.n)), t.d)
        d1 == distance_sq(x, RPoint(p1, 1))
        d2 == distance_sq(x, RPoint(p2, 1))
    IN  LtTol(d1.n, d1.d, m) \/ LtTol(d2.n, d2.d, m)

\* the beams of args are not parallel and their segments come within max_distance
MeetsSkew(g) ==
    LET t == ClosestParams(g.a1, g.a2, g.b1, g.b2)
    IN  ~ _exceed_max_distance(SegmentPoint(g.a1, g.a2, t.s), SegmentPoint(g.b1, g.b2, t.u),
                               g.max_distance)

NotParallel(g) ==
    cross_vectors(subtract_vectors(g.a2, g.a1), subtract_vectors(g.b2, g.b1)) # <<0, 0, 0>>

DistOrZero(m) == IF m.given THEN m.v ELSE 0

\* beam_a's end is at the meeting point / beam_b's end is at the meeting point
TouchesA(g) ==
    EndTouches(g.a1, g.a2, ClosestParams(g.a1, g.a2, g.b1, g.b2).s, DistOrZero(g.max_distance))
TouchesB(g) ==
    EndTouches(g.b1, g.b2, ClosestParams(g.a1, g.a2, g.b1, g.b2).u, DistOrZero(g.max_distance))

TopoDone == pc = "done" /\ args.op = "find_topology"

\* C1: for non-parallel beams that meet within max_distance, when exactly one
\* beam's intersection parameter is near-end, find_topology returns TOPO_T with
\* main = the beam whose end touches and cross = the other beam, whichever of
\* the two was passed as beam_a.
C1_TMainIsTouchingBeam ==
    (TopoDone /\ NotParallel(args) /\ MeetsSkew(args)) =>
        /\ (TouchesA(args) /\ ~ TouchesB(args)) =>
                result = [topo |-> TOPO_T, main |-> "a", cross |-> "b"]
        /\ (TouchesB(args) /\ ~ TouchesA(args)) =>
                result = [topo |-> TOPO_T, main |-> "b", cross |-> "a"]

\* C1 witness: only beam_b's end touches, and the roles come back swapped
C1_Witness ==
    /\ TopoDone /\ NotParallel(args) /\ MeetsSkew(args)
    /\ TouchesB(args) /\ ~ TouchesA(args)
    /\ result.topo = TOPO_T /\ result.main = "b" /\ result.cross = "a"


\* the beams of g lie on one line
Collinear(g) ==
    LET va == subtract_vectors(g.a2, g.a1)
    IN  /\ cross_vectors(va, subtract_vectors(g.b2, g.b1)) = <<0, 0, 0>>
        /\ cross_vectors(va, subtract_vectors(g.b1, g.a1)) = <<0, 0, 0>>

\* lattice points p and q are within max_distance, or within tol when it is not given
EndsShared(p, q, m) ==
    IF m.given THEN length_sq(subtract_vectors(p, q)) <= m.v * m.v ELSE p = q

\* the pairs <<end of beam_a, its other end, end of beam_b, its other end>> that are shared
SharedEnds(g) ==
    {e \in {<<g.a1, g.a2, g.b1, g.b2>>, <<g.a1, g.a2, g.b2, g.b1>>,
            <<g.a2, g.a1, g.b1, g.b2>>, <<g.a2, g.a1, g.b2, g.b1>>} :
        EndsShared(e[1], e[3], g.max_distance)}

\* from a shared end, both beams run the same way
Overlapping(g) ==
    \E e \in SharedEnds(g) :
        dot_vectors(subtract_vectors(e[2], e[1]), subtract_vectors(e[4], e[3])) > 0

\* C2 as stated: collinear beams sharing exactly one endpoint classify as TOPO_I,
\* and as TOPO_UNKNOWN when they share zero or two.
C2_AsStated ==
    (TopoDone /\ Collinear(args)) =>
        /\ Cardinality(SharedEnds(args)) = 1 => result.topo = TOPO_I
        /\ Cardinality(SharedEnds(args)) \in {0, 2} => result.topo = TOPO_UNKNOWN

\* C2 amended: collinear beams classify as TOPO_I (beams in input order) when
\* they share exactly one endpoint within tolerance and run in opposite
\* directions from it; they classify as TOPO_UNKNOWN when the number of shared
\* endpoint pairs is not one, or when they run the same way from the shared
\* endpoint (they overlap).
C2_CollinearTopoI ==
    (TopoDone /\ Collinear(args)) =>
        IF Cardinality(SharedEnds(args)) = 1 /\ ~ Overlapping(args)
        THEN result = [topo |-> TOPO_I, main |-> "a", cross |-> "b"]
        ELSE result = Unknown

\* C2 witness: collinear beams that share one endpoint and overlap
C2_Witness ==
    /\ TopoDone /\ Collinear(args)
    /\ Cardinality(SharedEnds(args)) = 1 /\ Overlapping(args)
    /\ result.topo = TOPO_UNKNOWN


(***************************************************************************)
(* LButtJoint.get_main_cutting_plane                                       *)
(***************************************************************************)
\* an incidence angle of a face is one of 0..MaxAngle (classes of equal angle)
MaxAngle == 2

\* Beam.faces: indices 0..3 are the lateral faces (faces[:4]), 4 and 5 the end faces
FaceIndices == 0..5
LateralFaces == 0..3
EndFaces == FaceIndices \ LateralFaces

\* min(face_angles, key=face_angles.get): the first key of least value
MinKey(face_angles) ==
    CHOOSE i \in DOMAIN face_angles :
        /\ \A j \in DOMAIN face_angles : face_angles[i] <= face_angles[j]
        /\ \A j \in DOMAIN face_angles : j < i => face_angles[j] > face_angles[i]

JoinError == "BeamJoinningError"
\* the built-in exceptions that the joints let through
TypeError == "TypeError"
AssertionError == "AssertionError"
AttributeError == "AttributeError"

\* LButtJoint.get_main_cutting_plane, given beam_side_incidence(main, cross, ignore_ends=False)
LButt_get_main_cutting_plane(face_angles) ==
    LET face_index == MinKey(face_angles)
    IN  IF face_index \in {5, 6}
        THEN [raised |-> JoinError, face_index |-> face_index, cfr |-> None]
        ELSE [raised |-> None, face_index |-> face_index,
              cfr |-> [face |-> face_index, flipped |-> TRUE]]

InitLButtPlane ==
    /\ args \in {[op |-> "get_main_cutting_plane", face_angles |-> f] :
                    f \in [FaceIndices -> 0..MaxAngle]}
    /\ result = None
    /\ pc = "call"
    /\ NoAssembly

GetMainCuttingPlane ==
    /\ pc = "call"
    /\ args.op = "get_main_cutting_plane"
    /\ result' = LButt_get_main_cutting_plane(args.face_angles)
    /\ pc' = "done"
    /\ UNCHANGED <<args, jvars>>

NextLButtPlane == GetMainCuttingPlane

SpecLButtPlane == InitLButtPlane /\ [][NextLButtPlane]_vars

\* the face of least incidence angle among the six cross-beam faces
SelectedFace(f) ==
    CHOOSE i \in FaceIndices :
        \A j \in FaceIndices : f[i] < f[j] \/ (f[i] = f[j] /\ i <= j)

\* C6: get_main_cutting_plane raises JoinError whenever the selected cross-beam
\* face (least incidence angle among all six) is one of the two end faces, and
\* returns a cutting frame only when it is one of the four lateral faces.
C6_EndFaceRaises ==
    (pc = "done" /\ args.op = "get_main_cutting_plane") =>
        /\ SelectedFace(args.face_angles) \in EndFaces => result.raised = JoinError
        /\ result.raised = None => SelectedFace(args.face_angles) \in LateralFaces


(***************************************************************************)
(* FrenchRidgeLapJoint.check_geometry                                      *)
(*                                                                         *)
(* A beam of the pair is a record: its key, whether the role reference is  *)
(* set, its width and height, x_dot = |dot(centerline direction, [1,0,0])| *)
(* (in hundredths) and `axis`: which of its local axes the corner normal   *)
(* cross(first beam x axis, second beam x axis) is aligned with.           *)
(***************************************************************************)
Sizes == {80, 100}
Alignments == {"+y", "+z", "-y", "-z", "none"}

\* the alignment of a beam with the opposite normal
Opposite(a) ==
    CASE a = "+y" -> "-y" [] a = "-y" -> "+y" [] a = "+z" -> "-z" [] a = "-z" -> "+z"
      [] OTHER -> "none"

\* FrenchRidgeLapJoint.flip_lap: TRUE when the roles are swapped
flip_lap(main, cross) == main.x_dot < cross.x_dot

\* check_geometry lines 130-137: the index appended for the main beam (0: no face aligns)
MainFaceIndex(a) ==
    CASE a = "+y" -> 3 [] a = "+z" -> 4 [] a = "-y" -> 1 [] a = "-z" -> 2 [] OTHER -> 0

\* check_geometry lines 147-154: the index appended for the cross beam (0: no face aligns)
CrossFaceIndex(a) ==
    CASE a = "-y" -> 3 [] a = "-z" -> 4 [] a = "+y" -> 1 [] a = "+z" -> 2 [] OTHER -> 0

\* check_geometry testing only the widths
check_geometry_width_only(main_beam, cross_beam) ==
    IF ~ (main_beam.set /\ cross_beam.set)
    THEN [raised |-> JoinError, debug_info |-> "beams not set"]
    ELSE IF ~ (main_beam.width = cross_beam.width)
    THEN [raised |-> JoinError, debug_info |-> "beams are not of same size"]
    ELSE [raised |-> None, debug_info |-> None]

\* FrenchRidgeLapJoint.check_geometry
check_geometry(main_beam, cross_beam) ==
    IF ~ (main_beam.set /\ cross_beam.set)
    THEN [raised |-> JoinError, debug_info |-> "beams not set"]
    ELSE IF ~ (main_beam.width = cross_beam.width /\ main_beam.height = cross_beam.height)
    THEN [raised |-> JoinError, debug_info |-> "beams are not of same size"]
    ELSE LET flipped == flip_lap(main_beam, cross_beam)
             main == IF flipped THEN cross_beam ELSE main_beam
             cross == IF flipped THEN main_beam ELSE cross_beam
             \* normal = cross(main x axis, cross x axis): reversed by the swap
             main_axis == IF flipped THEN Opposite(main.axis) ELSE main.axis
             cross_axis == IF flipped THEN Opposite(cross.axis) ELSE cross.axis
         IN  IF MainFaceIndex(main_axis) = 0 \/ CrossFaceIndex(cross_axis) = 0
             THEN [raised |-> JoinError,
                   debug_info |-> "part not aligned with corner normal, no French Ridge Lap possible"]
             ELSE [raised |-> None, debug_info |-> None,
                   main_beam_key |-> main.key, cross_beam_key |-> cross.key,
                   indices |-> <<MainFaceIndex(main_axis), CrossFaceIndex(cross_axis)>>,
                   reference_face_indices |-> <<<<main.key, 4>>, <<cross.key, 2>>>>]

FRLBeams(k) ==
    [key : {k}, set : BOOLEAN, width : Sizes, height : Sizes, x_dot : {0, 100},
     axis : Alignments]

InitFRL ==
    /\ args \in {[op |-> "check_geometry", main_beam |-> m, cross_beam |-> c] :
                    m \in FRLBeams(1), c \in FRLBeams(2)}
    /\ result = None
    /\ pc = "call"
    /\ NoAssembly

\* FrenchRidgeLapJoint.add_features: check_geometry, then features = []
FRLAddFeatures ==
    /\ pc = "call"
    /\ args.op = "check_geometry"
    /\ result' = check_geometry(args.main_beam, args.cross_beam)
    /\ pc' = "done"
    /\ UNCHANGED <<args, jvars>>

NextFRL == FRLAddFeatures

SpecFRL == InitFRL /\ [][NextFRL]_vars

FRLDone == pc = "done" /\ args.op = "check_geometry"

\* C7: french-ridge-lap construction raises JoinError whenever the two beams do
\* not have equal width and equal height; check_geometry accepts only pairs
\* with main.width = cross.width and main.height = cross.height.
C7_UnequalSectionRaises ==
    FRLDone =>
        /\ (args.main_beam.width # args.cross_beam.width
                \/ args.main_beam.height # args.cross_beam.height) => result.raised = JoinError
        /\ result.raised = None =>
                /\ args.main_beam.width = args.cross_beam.width
                /\ args.main_beam.height = args.cross_beam.height

\* C7 witness: both beams set, 100x100 against 100x80, and the call raised
C7_Witness ==
    /\ FRLDone
    /\ args.main_beam.set /\ args.cross_beam.set
    /\ args.main_beam.width = 100 /\ args.main_beam.height = 100
    /\ args.cross_beam.width = 100 /\ args.cross_beam.height = 80
    /\ result.raised = JoinError /\ result.debug_info = "beams are not of same size"


\* C22: when check_geometry succeeds, reference_face_indices maps each
\* beam's key to the face index (1..4) that the alignment test selected for
\* that beam, so different alignments give different recorded indices.
C22_ReferenceFacesAsSelected ==
    (FRLDone /\ result.raised = None) =>
        /\ result.indices[1] \in 1..4 /\ result.indices[2] \in 1..4
        /\ result.reference_face_indices =
              <<<<result.main_beam_key, result.indices[1]>>,
                <<result.cross_beam_key, result.indices[2]>>>>

(***************************************************************************)
(* ButtJoint.calc_params_drilling                                          *)
(*                                                                         *)
(* The inclination (the angle, in 0..90 degrees, of the main centerline    *)
(* with its projection on the reference plane) is kept as its sine, a      *)
(* rational p/q of a Pythagorean triple, so that 1/sin is exact.           *)
(***************************************************************************)
\* raw start coordinates are 0..MaxStart
MaxStart == 2

\* offset_from_edge = 20.0
offset_from_edge == 20

\* sines of the inclinations 0, 22.6, 36.9, 53.1, 67.4 and 90 degrees
Inclinations ==
    {[n |-> 0, d |-> 1], [n |-> 5, d |-> 13], [n |-> 3, d |-> 5], [n |-> 4, d |-> 5],
     [n |-> 12, d |-> 13], [n |-> 1, d |-> 1]}

Vertical == [n |-> 1, d |-> 1]

\* inclination < 45, on the sine: sin^2 < 1/2
Below45(inc) == 2 * inc.n * inc.n < inc.d * inc.d

DrillWidths == {60, 100}

\* (cross_beam.width / 2) / sin(inclination) - offset_from_edge, signed by
\* cross_dot_main = the sign of dot(cross direction, main direction) (lines 470-479)
start_displacement(width, inc, ends_main, cross_dot_main) ==
    LET disp == Rat(width * inc.d - 2 * offset_from_edge * inc.n, 2 * inc.n)
        \* main_centerline is the main direction, reversed when the main end is "end"
        positive == IF ends_main = "start" THEN cross_dot_main > 0 ELSE -cross_dot_main > 0
    IN  IF positive THEN [n |-> -disp.n, d |-> disp.d] ELSE disp

\* calc_params_drilling without the branch for inclination == 0
calc_params_drilling_no_zero_branch(a) ==
    IF Below45(a.inclination)
    THEN IF a.inclination.n = 0
         THEN [raised |-> "ZeroDivisionError"]
         ELSE LET disp == start_displacement(a.cross_width, a.inclination, a.ends_main,
                                             a.cross_dot_main)
              IN  [raised |-> None, Inclination |-> Vertical,
                   StartX |-> Rat(a.StartX * disp.d - disp.n, disp.d), StartY |-> a.StartY,
                   Diameter |-> a.drill_diameter]
    ELSE [raised |-> None, Inclination |-> a.inclination, StartX |-> Rat(a.StartX, 1),
          StartY |-> a.StartY, Diameter |-> a.drill_diameter]

\* ButtJoint.calc_params_drilling (lines 448-498): btlx_drilling_params_cross
calc_params_drilling(a) ==
    IF a.inclination.n = 0
    THEN [raised |-> None, Inclination |-> Vertical, StartX |-> Rat(a.StartX, 1),
          StartY |-> a.StartY, Diameter |-> a.drill_diameter]
    ELSE IF Below45(a.inclination)
    THEN LET disp == start_displacement(a.cross_width, a.inclination, a.ends_main,
                                        a.cross_dot_main)
         IN  [raised |-> None, Inclination |-> Vertical,
              StartX |-> Rat(a.StartX * disp.d - disp.n, disp.d), StartY |-> a.StartY,
              Diameter |-> a.drill_diameter]
    ELSE [raised |-> None, Inclination |-> a.inclination, StartX |-> Rat(a.StartX, 1),
          StartY |-> a.StartY, Diameter |-> a.drill_diameter]

InitDrilling ==
    /\ args \in [op : {"calc_params_drilling"}, inclination : Inclinations,
                 StartX : 0..MaxStart, StartY : 0..MaxStart, cross_width : DrillWidths,
                 ends_main : {"start", "end"}, cross_dot_main : {-1, 0, 1},
                 drill_diameter : {10}]
    /\ result = None
    /\ pc = "call"
    /\ NoAssembly

CalcParamsDrilling ==
    /\ pc = "call"
    /\ args.op = "calc_params_drilling"
    /\ result' = calc_params_drilling(args)
    /\ pc' = "done"
    /\ UNCHANGED <<args, jvars>>

NextDrilling == CalcParamsDrilling

SpecDrilling == InitDrilling /\ [][NextDrilling]_vars

DrillingDone == pc = "done" /\ args.op = "calc_params_drilling"

\* the lateral offset (cross_width/2)/sin(inclination) - edge clearance is not zero
\* (at inclination 0 it is unbounded)
OffsetNotZero(a) == a.cross_width * a.inclination.d # 2 * offset_from_edge * a.inclination.n

\* C8 as stated: at an inclination of exactly 0 the reported Inclination is 90.0
\* and the reported StartX differs from the raw projected start coordinate by
\* the lateral offset, as in the near-vertical branch.
C8_AsStated ==
    (DrillingDone /\ args.inclination.n = 0) =>
        /\ result.raised = None
        /\ result.Inclination = Vertical
        /\ OffsetNotZero(args) => result.StartX # Rat(args.StartX, 1)

\* C8 amended: at an inclination of exactly 0 the reported Inclination is 90.0
\* and the reported StartX is the raw projected start coordinate, unshifted; the
\* lateral offset (cross_width/2)/sin(inclination) - edge clearance is applied
\* to StartX only in the near-vertical branch 0 < inclination < 45, where the
\* reported Inclination is 90.0 as well.
C8_ZeroInclinationVertical ==
    DrillingDone =>
        /\ args.inclination.n = 0 =>
            /\ result.raised = None
            /\ result.Inclination = Vertical
            /\ result.StartX = Rat(args.StartX, 1)
        /\ (args.inclination.n # 0 /\ Below45(args.inclination)) =>
            /\ result.raised = None
            /\ result.Inclination = Vertical
            /\ LET shift == Rat(args.cross_width * args.inclination.d
                                    - 2 * offset_from_edge * args.inclination.n,
                                2 * args.inclination.n)
                   left == Rat(args.StartX * shift.d - shift.n, shift.d)
                   right == Rat(args.StartX * shift.d + shift.n, shift.d)
               IN  result.StartX \in {left, right}

\* C8 witness: an inclination of exactly 0 with a non-zero raw start coordinate
C8_Witness ==
    /\ DrillingDone /\ args.inclination.n = 0 /\ args.StartX > 0
    /\ result.Inclination = Vertical /\ result.StartX = Rat(args.StartX, 1)


(***************************************************************************)
(* ButtJoint.subtraction_volume: the parameter record btlx_params_cross    *)
(* (lengths in tenths of a unit).                                          *)
(***************************************************************************)
\* distance_line_line(*side_lines) is one of 0, 20.5, .., MaxSpan * 20.5
MaxSpan == 4
\* mill_depth is one of 0, 10, .., MaxMill * 10
MaxMill == 2

\* the least pocket length, 61.5
MinPocketLength == 615

\* tan(pocket_angle), as rationals
Tangents == {[n |-> 0, d |-> 1], [n |-> 1, d |-> 2], [n |-> -1, d |-> 2], [n |-> 1, d |-> 1],
             [n |-> -2, d |-> 1]}

\* subtraction_volume without the floor of line 218
subtraction_volume_no_floor(a, params) ==
    IF ~ a.solvable THEN [raised |-> "TypeError", btlx_params_cross |-> params]
    ELSE LET pocket_extension == Rat(Abs(a.tan_pocket_angle.n * a.mill_depth),
                                     a.tan_pocket_angle.d)
             _len == Rat(a.side_distance * pocket_extension.d + pocket_extension.n,
                         pocket_extension.d)
         IN  [raised |-> None,
              btlx_params_cross |->
                  [depth |-> a.mill_depth,
                   width |-> IF a.reference_side_index_cross % 2 = 0
                             THEN a.cross_height ELSE a.cross_width,
                   length |-> _len]]

\* ButtJoint.subtraction_volume (lines 212-229), from `params` = btlx_params_cross
subtraction_volume(a, params) ==
    IF ~ a.solvable THEN [raised |-> "TypeError", btlx_params_cross |-> params]
    ELSE LET pocket_extension == Rat(Abs(a.tan_pocket_angle.n * a.mill_depth),
                                     a.tan_pocket_angle.d)
             _len == Rat(a.side_distance * pocket_extension.d + pocket_extension.n,
                         pocket_extension.d)
         IN  [raised |-> None,
              btlx_params_cross |->
                  [depth |-> a.mill_depth,
                   width |-> IF a.reference_side_index_cross % 2 = 0
                             THEN a.cross_height ELSE a.cross_width,
                   length |-> IF _len.n < MinPocketLength * _len.d
                              THEN Rat(MinPocketLength, 1) ELSE _len]]

InitPocket ==
    /\ args \in [op : {"subtraction_volume"}, solvable : BOOLEAN,
                 side_distance : {205 * k : k \in 0..MaxSpan},
                 mill_depth : {100 * k : k \in 0..MaxMill},
                 tan_pocket_angle : Tangents,
                 reference_side_index_cross : LateralFaces,
                 cross_width : {1000}, cross_height : {800}]
    /\ result = [raised |-> None, btlx_params_cross |-> <<>>]
    /\ pc = "call"
    /\ NoAssembly

SubtractionVolume ==
    /\ pc = "call"
    /\ args.op = "subtraction_volume"
    /\ result' = subtraction_volume(args, result.btlx_params_cross)
    /\ pc' = "done"
    /\ UNCHANGED <<args, jvars>>

NextPocket == SubtractionVolume

SpecPocket == InitPocket /\ [][NextPocket]_vars

PocketDone == pc = "done" /\ args.op = "subtraction_volume"

\* the raw pocket length: side distance + |tan(entry angle) * mill_depth|
RawPocketLength(a) ==
    Rat(a.side_distance * a.tan_pocket_angle.d + Abs(a.tan_pocket_angle.n) * a.mill_depth,
        a.tan_pocket_angle.d)

\* C9: whenever subtraction_volume completes, the pocket length it records is
\* never less than 61.5: it is max(61.5, distance between the two main-side
\* intersection lines + |tan(entry angle) * mill_depth|).
C9_PocketLengthFloor ==
    (PocketDone /\ result.raised = None) =>
        LET len == result.btlx_params_cross.length
            raw == RawPocketLength(args)
        IN  /\ len.n >= MinPocketLength * len.d
            /\ len.n * raw.d >= raw.n * len.d
            /\ len = Rat(MinPocketLength, 1) \/ len = raw

\* C9 witness: mill_depth = 0 and a raw span below 61.5, recorded as 61.5
C9_Witness ==
    /\ PocketDone /\ result.raised = None
    /\ args.mill_depth = 0 /\ args.side_distance < MinPocketLength
    /\ result.btlx_params_cross.length = Rat(MinPocketLength, 1)


(***************************************************************************)
(* ButtJoint.calc_params_birdsmouth: the angles of btlx_params_main.       *)
(*                                                                         *)
(* The traces of the two planes on the reference face are vectors of the   *)
(* face's (xaxis, yaxis) plane, taken among the eight compass directions,  *)
(* whose angles are whole degrees.                                         *)
(***************************************************************************)
CompassDirections ==
    {<<1, 0>>, <<1, 1>>, <<0, 1>>, <<-1, 1>>, <<-1, 0>>, <<-1, -1>>, <<0, -1>>, <<1, -1>>}

\* angle_vectors(v, ref_frame.xaxis, deg=True) for a compass direction v
AngleToXAxis(v) ==
    CASE v = <<1, 0>> -> 0
      [] v \in {<<1, 1>>, <<1, -1>>} -> 45
      [] v \in {<<0, 1>>, <<0, -1>>} -> 90
      [] v \in {<<-1, 1>>, <<-1, -1>>} -> 135
      [] OTHER -> 180

\* lines 382-393: the angle of a trace with the reference vector
TraceAngle(v, ends_main) ==
    LET w == IF v[2] < 0 THEN <<-v[1], -v[2]>> ELSE v
    IN  IF ends_main = "start" THEN AngleToXAxis(w) ELSE 180 - AngleToXAxis(w)

\* calc_params_birdsmouth without the exchange of lines 398-400
calc_params_birdsmouth_no_swap(a, params) ==
    IF ~ a.apex_found THEN [returned |-> FALSE, btlx_params_main |-> params]
    ELSE [returned |-> TRUE,
          btlx_params_main |->
              [Orientation |-> a.ends_main,
               Angle1 |-> TraceAngle(a.intersect_vec1, a.ends_main),
               Inclination1 |-> a.Inclination1,
               Angle2 |-> TraceAngle(a.intersect_vec2, a.ends_main),
               Inclination2 |-> a.Inclination2,
               ReferencePlaneID |-> a.main_face_index]]

\* ButtJoint.calc_params_birdsmouth (lines 316-412), from `params` = btlx_params_main
calc_params_birdsmouth(a, params) ==
    IF ~ a.apex_found THEN [returned |-> FALSE, btlx_params_main |-> params]
    ELSE LET Angle1 == TraceAngle(a.intersect_vec1, a.ends_main)
             Angle2 == TraceAngle(a.intersect_vec2, a.ends_main)
             swap == Angle1 > Angle2
         IN  [returned |-> TRUE,
              btlx_params_main |->
                  [Orientation |-> a.ends_main,
                   Angle1 |-> IF swap THEN Angle2 ELSE Angle1,
                   Inclination1 |-> IF swap THEN a.Inclination2 ELSE a.Inclination1,
                   Angle2 |-> IF swap THEN Angle1 ELSE Angle2,
                   Inclination2 |-> IF swap THEN 180 - a.Inclination1 ELSE a.Inclination2,
                   ReferencePlaneID |-> a.main_face_index]]

InitBirdsmouth ==
    /\ args \in [op : {"calc_params_birdsmouth"}, apex_found : BOOLEAN,
                 intersect_vec1 : CompassDirections, intersect_vec2 : CompassDirections,
                 ends_main : {"start", "end"},
                 Inclination1 : {45, 90, 135}, Inclination2 : {45, 90, 135},
                 main_face_index : {0}]
    /\ result = [returned |-> FALSE, btlx_params_main |-> <<>>]
    /\ pc = "call"
    /\ NoAssembly

CalcParamsBirdsmouth ==
    /\ pc = "call"
    /\ args.op = "calc_params_birdsmouth"
    /\ result' = calc_params_birdsmouth(args, result.btlx_params_main)
    /\ pc' = "done"
    /\ UNCHANGED <<args, jvars>>

NextBirdsmouth == CalcParamsBirdsmouth

SpecBirdsmouth == InitBirdsmouth /\ [][NextBirdsmouth]_vars

BirdsmouthDone == pc = "done" /\ args.op = "calc_params_birdsmouth"

\* C10: whenever calc_params_birdsmouth returns True, the record it stores
\* satisfies Angle1 <= Angle2, for acute and obtuse meetings and for both
\* orientations of the main beam.
C10_Angle1LeAngle2 ==
    (BirdsmouthDone /\ result.returned) =>
        result.btlx_params_main.Angle1 <= result.btlx_params_main.Angle2

\* C10 witness: an "end" orientation whose first trace makes the larger angle
\* (acute first trace, obtuse second), stored exchanged
C10_Witness ==
    /\ BirdsmouthDone /\ result.returned
    /\ args.ends_main = "end"
    /\ args.intersect_vec1 = <<1, 1>> /\ args.intersect_vec2 = <<-1, 1>>
    /\ result.btlx_params_main.Angle1 = 45 /\ result.btlx_params_main.Angle2 = 135

\* ------------------------------------------------------------------------
\* Joints of one assembly acting on shared beams
\* (add_extensions / add_features of TButtJoint, LButtJoint, LMiterJoint,
\* FrenchRidgeLapJoint)
\* ------------------------------------------------------------------------

BeamKeys == 1..3

TButtJoint == "TButtJoint"
LButtJoint == "LButtJoint"
LMiterJoint == "LMiterJoint"
FrenchRidgeLapJoint == "FrenchRidgeLapJoint"
JointKeys == {TButtJoint, LButtJoint, LMiterJoint, FrenchRidgeLapJoint}

\* amounts of blank extension are counted in hundredths of a design unit
Unit == 100
\* extension_tolerance of TButtJoint.add_extensions (10.0)
TButt_extension_tolerance == 1000
\* extension_tolerance of LButtJoint.add_features (0.01)
LButt_extension_tolerance == 1

\* the Python object made by the n-th constructor call of the given
\* invocation of a joint's add_features: two objects are the same object
\* iff they agree on (joint, call, n)
Object(j, call, n, type) == [joint |-> j, call |-> call, n |-> n, type |-> type]

\* Beam.add_blank_extension(start, end, joint_key): the entry under the
\* joint's key is replaced
Beam_add_blank_extension(ext, beam, start, end, joint_key) ==
    [ext EXCEPT ![beam][joint_key] = <<start, end>>]

\* Beam.extension_to_plane(plane): how far the beam has to grow, at the end
\* at which it meets the plane
Beam_extension_to_plane(g, beam, plane) ==
    LET d == Unit * g.ext[plane]
    IN  IF g.ends[beam] = "start" THEN <<d, 0>> ELSE <<0, d>>

\* Beam.add_features(features) / Beam.add_feature(feature): appended in order
Beam_add_features(fs, beam, new) == [fs EXCEPT ![beam] = @ \o new]

\* Beam.remove_features(features) / Beam.clear_features(features): the listed
\* objects are taken off the beam's list
Beam_remove_features(fs, beam, given) ==
    [fs EXCEPT ![beam] =
        SelectSeq(@, LAMBDA f : \A i \in 1..Len(given) : given[i] # f)]

Min(a, b) == IF a <= b THEN a ELSE b

\* a role beam that is not set (None); a beam's key stands for the beam
NoBeam == 0
\* LMiterJoint's cutoff when not given (None)
NoCutoff == [given |-> FALSE, v |-> 0]

\* ButtJoint.__init__ (the stepjoint argument is not kept)
ButtJoint_init(key, main_beam, cross_beam, mill_depth, drill_diameter, birdsmouth, stepjoint) ==
    [key |-> key, main_beam |-> main_beam, cross_beam |-> cross_beam,
     main_beam_key |-> main_beam, cross_beam_key |-> cross_beam,
     mill_depth |-> mill_depth, drill_diameter |-> drill_diameter,
     birdsmouth |-> birdsmouth, force_birdsmouth |-> TRUE, stepjoint |-> FALSE,
     features |-> <<>>, calls |-> 0]

\* LButtJoint.__init__
LButtJoint_init(key, main_beam, cross_beam, extend_cross) ==
    [key |-> key, main_beam |-> main_beam, cross_beam |-> cross_beam,
     main_beam_key |-> main_beam, cross_beam_key |-> cross_beam,
     extend_cross |-> extend_cross, features |-> <<>>, calls |-> 0]

\* LMiterJoint.__init__
LMiterJoint_init(key, beam_a, beam_b, cutoff) ==
    [key |-> key, beam_a |-> beam_a, beam_b |-> beam_b,
     beam_a_key |-> beam_a, beam_b_key |-> beam_b, cutoff |-> cutoff,
     features |-> <<>>, calls |-> 0]

\* FrenchRidgeLapJoint.__init__
FrenchRidgeLapJoint_init(key, main_beam, cross_beam, drill_diameter) ==
    [key |-> key, main_beam |-> main_beam, cross_beam |-> cross_beam,
     main_beam_key |-> main_beam, cross_beam_key |-> cross_beam,
     drill_diameter |-> drill_diameter, features |-> <<>>, calls |-> 0]

\* a variant that tests the frames for being perpendicular only
check_joint_boolean_perpendicular_only(J, g) ==
    IF J.stepjoint
    THEN [J EXCEPT !.stepjoint = FALSE]
    ELSE LET valid == Abs(g.zaxis_dot) >= 10
             birdsmouth == IF J.birdsmouth THEN valid ELSE J.birdsmouth
         IN  [J EXCEPT !.stepjoint = FALSE,
                       !.birdsmouth = IF ~J.force_birdsmouth THEN FALSE ELSE birdsmouth]
\* ButtJoint.check_joint_boolean; dots are given in thousandths
check_joint_boolean(J, g) ==
    LET threshhold_value == 1
    IN  IF J.stepjoint
        THEN IF (1000 - threshhold_value) < g.cp_dot /\ g.cp_dot < threshhold_value
             THEN [J EXCEPT !.stepjoint = TRUE, !.birdsmouth = FALSE, !.mill_depth = 0]
             ELSE [J EXCEPT !.stepjoint = FALSE]
        ELSE LET dot == Abs(g.zaxis_dot)
                 valid == IF dot < 10 THEN FALSE
                          ELSE IF 990 < dot /\ dot < 1010 THEN FALSE
                          ELSE TRUE
                 birdsmouth == IF J.birdsmouth THEN valid ELSE J.birdsmouth
             IN  [J EXCEPT !.stepjoint = FALSE,
                           !.birdsmouth = IF ~J.force_birdsmouth THEN FALSE ELSE birdsmouth]

\* a variant that adds the new amounts to the ones already recorded
TButtJoint_add_extensions_cumulative(ext, J, g) ==
    LET J1 == check_joint_boolean(J, g)
        e == Beam_extension_to_plane(g, J.main_beam, "ortho")
        old == IF ext[J.main_beam][J.key] = <<>> THEN <<0, 0>> ELSE ext[J.main_beam][J.key]
    IN  [blank_extensions |->
            Beam_add_blank_extension(ext, J.main_beam,
                old[1] + e[1] + TButt_extension_tolerance,
                old[2] + e[2] + TButt_extension_tolerance, J.key),
         joint |-> J1]
\* TButtJoint.add_extensions
TButtJoint_add_extensions(ext, J, g) ==
    LET J1 == check_joint_boolean(J, g)
        front == Beam_extension_to_plane(g, J.main_beam, "second")
        back == Beam_extension_to_plane(g, J.main_beam, "towards")
        ortho == Beam_extension_to_plane(g, J.main_beam, "ortho")
        start_main == IF J1.birdsmouth THEN Min(front[1], back[1]) ELSE ortho[1]
        end_main == IF J1.birdsmouth THEN Min(front[2], back[2]) ELSE ortho[2]
    IN  [blank_extensions |->
            Beam_add_blank_extension(ext, J.main_beam,
                start_main + TButt_extension_tolerance,
                end_main + TButt_extension_tolerance, J.key),
         joint |-> J1]

\* the loop of calc_params_birdsmouth over the four lateral faces of the main
\* beam: a face whose intersection point is None is passed over, one whose
\* point lies 40 or more from the centerline is not kept; the method returns
\* True when a face is kept
ApexFound(g) == \E i \in LateralFaces : g.face_points[i] = "near"

\* a variant that empties the main beam's list before adding
TButtJoint_add_features_clear_all(fs, J, g) ==
    LET New(n, type) == Object(J.key, J.calls + 1, n, type)
    IN  [features |-> [fs EXCEPT ![J.main_beam] = <<New(1, "CutFeature")>>],
         joint |-> [J EXCEPT !.calls = @ + 1,
                             !.features = @ \o <<New(0, "Frame")>>],
         raised |-> None, unsolved |-> {}]
\* TButtJoint.add_features
TButtJoint_add_features(fs, J, g) ==
    LET call == J.calls + 1
        New(n, type) == Object(J.key, call, n, type)
        fs0 == IF J.features # <<>>
               THEN Beam_remove_features(fs, J.main_beam, J.features)
               ELSE fs
        \* calc_params_birdsmouth() is called, and returns True
        apex == ~J.stepjoint /\ J.birdsmouth /\ g.ridge_found /\ ApexFound(g)
        birdsmouth == IF J.stepjoint THEN J.birdsmouth ELSE apex
        mill_depth == IF apex THEN 0 ELSE J.mill_depth
        mill == ~J.stepjoint /\ mill_depth > 0
        drill == J.drill_diameter > 0
        \* the solve step that has no solution, of those that are reached
        stop == IF ~g.cutting_plane_found THEN "get_main_next_cutting_plane"
                ELSE IF ~J.stepjoint /\ J.birdsmouth /\ ~g.ridge_found
                     THEN "calc_params_birdsmouth"
                ELSE IF mill /\ ~g.pocket_found THEN "subtraction_volume"
                ELSE IF drill /\ ~g.drill_point_found THEN "calc_params_drilling"
                ELSE "none"
        main_done == stop \notin {"get_main_next_cutting_plane", "calc_params_birdsmouth"}
        mill_done == mill /\ stop # "subtraction_volume"
        drill_done == drill /\ stop = "none"
        \* the intersections that returned None in this invocation
        unsolved == (IF stop = "none" THEN {} ELSE {stop})
                    \cup (IF /\ g.cutting_plane_found /\ ~J.stepjoint /\ J.birdsmouth
                              /\ g.ridge_found
                              /\ \E i \in LateralFaces : g.face_points[i] = "none"
                           THEN {"intersection_plane_plane_plane"} ELSE {})
        to_main == IF J.stepjoint
                   THEN <<New(1, "BrepSubtraction"), New(3, "BrepSubtraction")>>
                   ELSE IF apex THEN <<New(1, "BrepSubtraction")>>
                   ELSE <<New(1, "CutFeature")>>
        to_cross == (IF J.stepjoint THEN <<New(5, "BrepSubtraction")>>
                     ELSE IF mill_done THEN <<New(7, "MillVolume")>> ELSE <<>>)
                    \o (IF drill_done THEN <<New(9, "DrillFeature")>> ELSE <<>>)
        kept == (IF J.stepjoint
                 THEN <<New(2, "BrepSubtraction"), New(4, "BrepSubtraction"),
                        New(6, "BrepSubtraction")>>
                 ELSE IF apex THEN <<New(2, "BrepSubtraction")>>
                 ELSE <<New(0, "Frame")>>)
                \o (IF mill_done THEN <<New(8, "MillVolume")>> ELSE <<>>)
                \o (IF drill_done THEN <<New(10, "DrillFeature")>> ELSE <<>>)
    IN  IF ~main_done
        THEN [features |-> fs0, joint |-> J,
              raised |-> IF stop = "get_main_next_cutting_plane"
                         THEN JoinError ELSE TypeError,
              unsolved |-> unsolved]
        ELSE [features |->
                Beam_add_features(Beam_add_features(fs0, J.main_beam, to_main),
                                  J.cross_beam, to_cross),
              joint |-> [J EXCEPT !.calls = call,
                                  !.birdsmouth = birdsmouth,
                                  !.mill_depth = mill_depth,
                                  !.features = @ \o kept],
              raised |-> IF stop = "none" THEN None ELSE TypeError,
              unsolved |-> unsolved]

\* LButtJoint.add_features
LButtJoint_add_features(fs, ext, J, g) ==
    LET call == J.calls + 1
        New(n, type) == Object(J.key, call, n, type)
        fs0 == IF J.features # <<>>
               THEN Beam_remove_features(fs, J.main_beam, J.features)
               ELSE fs
        main_cutting_plane == LButt_get_main_cutting_plane(g.face_angles)
        m == Beam_extension_to_plane(g, J.main_beam, "main_cutting_plane")
        c == Beam_extension_to_plane(g, J.cross_beam, "cross_cutting_plane")
        f_cross == New(1, "CutFeature")
        f_main == New(2, "CutFeature")
        ext1 == IF J.extend_cross
                THEN Beam_add_blank_extension(ext, J.cross_beam,
                        c[1] + LButt_extension_tolerance,
                        c[2] + LButt_extension_tolerance, J.key)
                ELSE ext
        fs1 == IF J.extend_cross
               THEN Beam_add_features(fs0, J.cross_beam, <<f_cross>>)
               ELSE fs0
        kept == (IF J.extend_cross THEN <<f_cross>> ELSE <<>>) \o <<f_main>>
    IN  IF main_cutting_plane.raised # None
        THEN [features |-> fs0, blank_extensions |-> ext, joint |-> J,
              raised |-> JoinError]
        ELSE [features |-> Beam_add_features(fs1, J.main_beam, <<f_main>>),
              blank_extensions |->
                Beam_add_blank_extension(ext1, J.main_beam,
                    m[1] + LButt_extension_tolerance,
                    m[2] + LButt_extension_tolerance, J.key),
              joint |-> [J EXCEPT !.calls = call, !.features = @ \o kept],
              raised |-> None]

\* a variant that clears the earlier features from beam_a only
LMiterJoint_add_features_clear_a_only(fs, J, g) ==
    LET call == J.calls + 1
        New(n, type) == Object(J.key, call, n, type)
        fs0 == IF J.features # <<>>
               THEN Beam_remove_features(fs, J.beam_a, J.features)
               ELSE fs
        trim_a == New(1, "BeamTrimmingFeature")
        extension_a == New(2, "BeamExtensionFeature")
        trim_b == New(3, "BeamTrimmingFeature")
        extension_b == New(4, "BeamExtensionFeature")
    IN  [features |->
            Beam_add_features(
                Beam_add_features(fs0, J.beam_a, <<extension_a, trim_a>>),
                J.beam_b, <<extension_b, trim_b>>),
         joint |-> [J EXCEPT !.calls = call,
                             !.features = <<trim_a, extension_a, trim_b, extension_b>>],
         raised |-> None]
\* LMiterJoint.add_features
LMiterJoint_add_features(fs, J, g) ==
    LET call == J.calls + 1
        New(n, type) == Object(J.key, call, n, type)
        fs0 == IF J.features # <<>>
               THEN Beam_remove_features(
                        Beam_remove_features(fs, J.beam_a, J.features),
                        J.beam_b, J.features)
               ELSE fs
        trim_a == New(1, "BeamTrimmingFeature")
        extension_a == New(2, "BeamExtensionFeature")
        trim_b == New(3, "BeamTrimmingFeature")
        extension_b == New(4, "BeamExtensionFeature")
    IN  [features |->
            Beam_add_features(
                Beam_add_features(fs0, J.beam_a, <<extension_a, trim_a>>),
                J.beam_b, <<extension_b, trim_b>>),
         joint |-> [J EXCEPT !.calls = call,
                             !.features = <<trim_a, extension_a, trim_b, extension_b>>],
         raised |-> None]

\* FrenchRidgeLapJoint.add_extensions
FrenchRidgeLapJoint_add_extensions(ext, J, g) ==
    LET m == Beam_extension_to_plane(g, J.main_beam, "cutting_plane_top")
        c == Beam_extension_to_plane(g, J.cross_beam, "cutting_plane_bottom")
    IN  Beam_add_blank_extension(
            Beam_add_blank_extension(ext, J.main_beam, m[1], m[2], J.key),
            J.cross_beam, c[1], c[2], J.key)

\* ---- the assembly: three beams, four joints, every beam in two or more joints

\* the planes a beam is extended to
Planes == {"ortho", "second", "towards", "main_cutting_plane",
           "cross_cutting_plane", "cutting_plane_top", "cutting_plane_bottom"}

\* cross-beam face incidences seen by the L-butt joint: a lateral face is the
\* nearest, or the end face of index 5 is
FaceAngleTables == {[i \in FaceIndices |-> IF i = k THEN 0 ELSE 1] : k \in {0, 5}}

\* the distances of a T-butt main beam to three faces of its cross beam; the
\* other planes lie at the first two of these distances
Distances ==
    {[p \in Planes |->
        CASE p \in {"ortho", "main_cutting_plane", "cutting_plane_bottom"} -> o
          [] p \in {"second", "cross_cutting_plane", "cutting_plane_top"} -> s
          [] OTHER -> t] :
     o \in 0..MaxExt, s \in 0..MaxExt, t \in 0..MaxExt}

\* the apex candidates of the main beam's faces: the two faces along the
\* ridge give no point; the other two give a point near the centerline, or
\* one too far from it
FacePoints ==
    {[i \in LateralFaces |-> IF i \in {1, 3} THEN "none" ELSE x] : x \in {"near", "far"}}

Geometries ==
    {[ext |-> e, ends |-> [b \in BeamKeys |-> IF b = 1 THEN "end" ELSE "start"],
      zaxis_dot |-> z, cp_dot |-> 1000, face_points |-> a,
      cutting_plane_found |-> c, ridge_found |-> TRUE, pocket_found |-> TRUE,
      drill_point_found |-> TRUE, face_angles |-> f] :
     e \in Distances, z \in {0, 500}, a \in FacePoints, c \in BOOLEAN,
     f \in FaceAngleTables}

\* the parameters the joints are created with
MillDepths == {0, 20}
DrillDiameters == {0, 10}

Assemblies ==
    {[TButtJoint |-> ButtJoint_init(TButtJoint, 1, 2, md, dd, bm, sj),
      LButtJoint |-> LButtJoint_init(LButtJoint, 3, 1, xc),
      LMiterJoint |-> LMiterJoint_init(LMiterJoint, 1, 3, NoCutoff),
      FrenchRidgeLapJoint |->
          FrenchRidgeLapJoint_init(FrenchRidgeLapJoint, 2, 3, 0)] :
     md \in MillDepths, dd \in DrillDiameters, bm \in BOOLEAN, sj \in BOOLEAN,
     xc \in BOOLEAN}

\* one representative of the cases that behave alike: the frames and the
\* apex are looked at only when a birdsmouth is requested, and the T-butt
\* parameters vary while the L-butt joint is the default one on a lateral
\* face, and conversely
Representative(g, js) ==
    /\ ApexFound(g) => js[TButtJoint].birdsmouth
    /\ g.zaxis_dot # 0 => js[TButtJoint].birdsmouth
    /\ \/ js[LButtJoint].extend_cross /\ MinKey(g.face_angles) \in LateralFaces
       \/ /\ js[TButtJoint].mill_depth = 0
          /\ js[TButtJoint].drill_diameter = 0
          /\ ~js[TButtJoint].birdsmouth
          /\ g.cutting_plane_found
          /\ g.ext["towards"] = 0

InitJoints ==
    /\ geometry \in Geometries
    /\ joint \in Assemblies
    /\ Representative(geometry, joint)
    /\ features = [b \in BeamKeys |-> <<>>]
    /\ blank_extensions = [b \in BeamKeys |-> [j \in JointKeys |-> <<>>]]
    /\ log = <<>>
    /\ args = None
    /\ result = None
    /\ pc = "assembly"

Invocation(j, op, raised) == [joint |-> j, op |-> op, raised |-> raised]

TButtAddExtensions ==
    LET r == TButtJoint_add_extensions(blank_extensions, joint[TButtJoint], geometry)
    IN  /\ Len(log) < MaxCalls
        /\ blank_extensions' = r.blank_extensions
        /\ joint' = [joint EXCEPT ![TButtJoint] = r.joint]
        /\ log' = Append(log, Invocation(TButtJoint, "add_extensions", None))
        /\ UNCHANGED <<features, geometry, fvars>>

TButtAddFeatures ==
    LET r == TButtJoint_add_features(features, joint[TButtJoint], geometry)
    IN  /\ Len(log) < MaxCalls
        /\ features' = r.features
        /\ joint' = [joint EXCEPT ![TButtJoint] = r.joint]
        /\ log' = Append(log, Invocation(TButtJoint, "add_features", r.raised))
        /\ UNCHANGED <<blank_extensions, geometry, fvars>>

LButtAddFeatures ==
    LET r == LButtJoint_add_features(features, blank_extensions,
                                     joint[LButtJoint], geometry)
    IN  /\ Len(log) < MaxCalls
        /\ features' = r.features
        /\ blank_extensions' = r.blank_extensions
        /\ joint' = [joint EXCEPT ![LButtJoint] = r.joint]
        /\ log' = Append(log, Invocation(LButtJoint, "add_features", r.raised))
        /\ UNCHANGED <<geometry, fvars>>

LMiterAddFeatures ==
    LET r == LMiterJoint_add_features(features, joint[LMiterJoint], geometry)
    IN  /\ Len(log) < MaxCalls
        /\ features' = r.features
        /\ joint' = [joint EXCEPT ![LMiterJoint] = r.joint]
        /\ log' = Append(log, Invocation(LMiterJoint, "add_features", r.raised))
        /\ UNCHANGED <<blank_extensions, geometry, fvars>>

FrenchRidgeLapAddExtensions ==
    /\ Len(log) < MaxCalls
    /\ blank_extensions' =
          FrenchRidgeLapJoint_add_extensions(blank_extensions,
                                             joint[FrenchRidgeLapJoint], geometry)
    /\ log' = Append(log, Invocation(FrenchRidgeLapJoint, "add_extensions", None))
    /\ UNCHANGED <<features, joint, geometry, fvars>>

NextJoints ==
    \/ TButtAddExtensions
    \/ TButtAddFeatures
    \/ LButtAddFeatures
    \/ LMiterAddFeatures
    \/ FrenchRidgeLapAddExtensions

SpecJoints == InitJoints /\ [][NextJoints]_vars

\* ---- claims about recomputation on shared beams

\* the features on a beam that the given joint made, in order
OwnFeatures(fs, b, j) == SelectSeq(fs[b], LAMBDA f : f.joint = j)

RoleBeams(j) ==
    IF j = LMiterJoint
    THEN {joint[j].beam_a, joint[j].beam_b}
    ELSE {joint[j].main_beam, joint[j].cross_beam}

Types(s) == [i \in 1..Len(s) |-> s[i].type]

\* so far only add_features of joint j has run, each time without an error
OnlyAddFeaturesOf(j) ==
    /\ Len(log) >= 1
    /\ \A i \in 1..Len(log) : log[i] = Invocation(j, "add_features", None)

\* what one invocation of add_features of joint j, with the joint's present
\* parameters, attaches to beams that carry nothing
AttachedOnce(j) ==
    LET bare == [b \in BeamKeys |-> <<>>]
        J == [joint[j] EXCEPT !.features = <<>>]
    IN  IF j = TButtJoint
        THEN TButtJoint_add_features(bare, J, geometry).features
        ELSE LButtJoint_add_features(bare, blank_extensions, J, geometry).features

\* C3: after n >= 1 consecutive add_features invocations of a T-butt or L-butt
\* joint, with nothing else changed, the main beam and the cross beam each
\* carry exactly the features that one invocation attaches
C3_NoFeatureDuplicated ==
    \A j \in {TButtJoint, LButtJoint} :
        OnlyAddFeaturesOf(j) =>
            \A b \in RoleBeams(j) :
                Types(features[b]) = Types(AttachedOnce(j)[b])

\* the step of a joint that records blank extensions
ExtensionStep(j) == IF j = LButtJoint THEN "add_features" ELSE "add_extensions"

\* the latest invocation of joint j in the history l, if any
Invocations(l, j) == {i \in 1..Len(l) : l[i].joint = j}
LatestOf(l, j) ==
    LET I == Invocations(l, j)
    IN  l[CHOOSE i \in I : \A k \in I : k <= i]

\* this step is the extension step of j, run again right after j ran it
RepeatsExtensionStep(j) ==
    /\ log' = Append(log, Invocation(j, ExtensionStep(j), None))
    /\ Invocations(log, j) # {}
    /\ LatestOf(log, j) = Invocation(j, ExtensionStep(j), None)

C5_OtherJointsUntouched ==
    [][\A j \in JointKeys :
          (log' # log /\ log'[Len(log')].joint = j) =>
              \A k \in JointKeys \ {j} : \A b \in BeamKeys :
                  /\ OwnFeatures(features', b, k) = OwnFeatures(features, b, k)
                  /\ blank_extensions'[b][k] = blank_extensions[b][k]]_vars

C5_Witness ==
    /\ Len(log) = 3
    /\ log[1] = Invocation(LMiterJoint, "add_features", None)
    /\ log[2] = Invocation(TButtJoint, "add_features", None)
    /\ log[3] = Invocation(TButtJoint, "add_features", None)
    /\ Len(OwnFeatures(features, 1, LMiterJoint)) = 2
    /\ Len(OwnFeatures(features, 1, TButtJoint)) = 2

\* ---- claims about the birdsmouth fallback

\* the frames disqualify a birdsmouth: |dot| of the two frame normals is
\* within 1% of 0 or of 1 (dots in thousandths)
BirdsmouthDisqualified(g) == Abs(g.zaxis_dot) < 10 \/ Abs(g.zaxis_dot) > 990

\* the latest invocation was this one, and it returned
Returned(j, op) ==
    /\ Len(log) >= 1
    /\ log[Len(log)] = Invocation(j, op, None)

\* the features that the latest add_features of joint j attached to beam b
LatestFeatures(b, j) ==
    SelectSeq(features[b], LAMBDA f : f.joint = j /\ f.call = joint[j].calls)

\* C11: when the birdsmouth configuration of a T-butt joint is invalid (the
\* frames fail the validity test, or no apex is found), add_features raises
\* no JoinError for that, leaves the birdsmouth flag False and attaches a
\* plain cut, and no subtraction volume, to the main beam
C11_InvalidBirdsmouthFallsBack ==
    (/\ Len(log) >= 1
     /\ log[Len(log)].joint = TButtJoint
     /\ log[Len(log)].op = "add_features"
     /\ geometry.cutting_plane_found
     /\ BirdsmouthDisqualified(geometry) \/ ~ApexFound(geometry)) =>
        /\ log[Len(log)].raised = None
        /\ ~joint[TButtJoint].birdsmouth
        /\ Types(LatestFeatures(joint[TButtJoint].main_beam, TButtJoint))
              = <<"CutFeature">>

\* ------------------------------------------------------------------------
\* add_extensions / add_features of a joint whose role beams are not all set
\* ------------------------------------------------------------------------

\* `assert self.main_beam and self.cross_beam` (assertions are executed)
assert_beams(main_beam, cross_beam) ==
    IF main_beam.set /\ cross_beam.set THEN None ELSE AssertionError

\* TButtJoint.add_extensions and TButtJoint.add_features begin with the assertion
TButtJoint_role_beams(main_beam, cross_beam) == assert_beams(main_beam, cross_beam)

\* LButtJoint.add_features begins with the assertion
LButtJoint_role_beams(main_beam, cross_beam) == assert_beams(main_beam, cross_beam)

\* LMiterJoint.add_features: beam_a.clear_features / beam_a.frame, then
\* beam_b.clear_features / beam_b.frame, are attributes of None
LMiterJoint_role_beams(beam_a, beam_b) ==
    IF ~beam_a.set THEN AttributeError
    ELSE IF ~beam_b.set THEN AttributeError
    ELSE None

\* what Joint.get_face_most_towards_beam does when handed None for a beam
FaceLookupOutcomes == {AttributeError, JoinError}

\* FrenchRidgeLapJoint.add_extensions: main_beam.add_blank_extension is an
\* attribute of None; with only the cross beam unset the face lookup of
\* cutting_plane_top is the first to meet None
FrenchRidgeLapJoint_role_beams(main_beam, cross_beam, face_lookup) ==
    IF ~main_beam.set THEN AttributeError
    ELSE IF ~cross_beam.set THEN face_lookup
    ELSE None

\* the exception an invocation ends with because of its role beams, or None
invoke_with_role_beams(a) ==
    CASE a.joint = TButtJoint -> TButtJoint_role_beams(a.main_beam, a.cross_beam)
      [] a.joint = LButtJoint -> LButtJoint_role_beams(a.main_beam, a.cross_beam)
      [] a.joint = LMiterJoint -> LMiterJoint_role_beams(a.main_beam, a.cross_beam)
      [] a.joint = FrenchRidgeLapJoint /\ a.method = "add_extensions" ->
            FrenchRidgeLapJoint_role_beams(a.main_beam, a.cross_beam, a.face_lookup)
      [] OTHER -> check_geometry(a.main_beam, a.cross_beam).raised

\* the methods of each joint kind that record extensions or features
Methods ==
    {<<TButtJoint, "add_extensions">>, <<TButtJoint, "add_features">>,
     <<LButtJoint, "add_features">>, <<LMiterJoint, "add_features">>,
     <<FrenchRidgeLapJoint, "add_extensions">>,
     <<FrenchRidgeLapJoint, "add_features">>}

\* beams of one section; each may be unset (None)
RoleBeamStates(k) ==
    {b \in FRLBeams(k) : b.width = 80 /\ b.height = 80 /\ b.x_dot = 100}

InitRoleBeams ==
    /\ args \in {[op |-> "invoke", joint |-> jm[1], method |-> jm[2],
                  main_beam |-> m, cross_beam |-> c, face_lookup |-> f] :
                    jm \in Methods, m \in RoleBeamStates(1), c \in RoleBeamStates(2),
                    f \in FaceLookupOutcomes}
    /\ ~ (args.main_beam.set /\ args.cross_beam.set)
    /\ result = None
    /\ pc = "call"
    /\ NoAssembly

InvokeWithRoleBeams ==
    /\ pc = "call"
    /\ args.op = "invoke"
    /\ result' = [raised |-> invoke_with_role_beams(args)]
    /\ pc' = "done"
    /\ UNCHANGED <<args, jvars>>

NextRoleBeams == InvokeWithRoleBeams

SpecRoleBeams == InitRoleBeams /\ [][NextRoleBeams]_vars

\* C12: add_extensions or add_features, invoked while a role beam is unset,
\* ends by raising JoinError and with no other exception
C12_UnsetBeamRaisesJoinError ==
    (pc = "done" /\ args.op = "invoke") => result.raised = JoinError


\* ------------------------------------------------------------------------
\* TButtJoint.add_features on geometry whose solve steps may have no solution
\* ------------------------------------------------------------------------

\* per pair of opposite faces of the main beam, what the apex search finds
SolveFacePoints ==
    {[i \in LateralFaces |-> IF i \in {1, 3} THEN x ELSE y] :
     x \in {"none", "far", "near"}, y \in {"none", "far", "near"}}

\* which of the intersections the feature step relies on have a solution
SolveGeometries ==
    {[face_points |-> fp, cutting_plane_found |-> c, ridge_found |-> r,
      pocket_found |-> p, drill_point_found |-> d] :
     fp \in SolveFacePoints, c \in BOOLEAN, r \in BOOLEAN, p \in BOOLEAN,
     d \in BOOLEAN}

InitSolve ==
    /\ args \in [op : {"TButtJoint.add_features"},
                 joint : {ButtJoint_init(TButtJoint, 1, 2, md, dd, bm, FALSE) :
                          md \in MillDepths, dd \in DrillDiameters, bm \in BOOLEAN},
                 geometry : SolveGeometries]
    /\ result = None
    /\ pc = "start"
    /\ NoAssembly

\* add_features of a T-butt joint on two beams that carry no features yet
AddFeaturesSolve ==
    /\ pc = "start"
    /\ LET r == TButtJoint_add_features([b \in BeamKeys |-> <<>>], args.joint,
                                        args.geometry)
       IN  result' = [raised |-> r.raised, unsolved |-> r.unsolved,
                      main |-> r.features[args.joint.main_beam],
                      cross |-> r.features[args.joint.cross_beam],
                      birdsmouth |-> r.joint.birdsmouth]
    /\ pc' = "done"
    /\ UNCHANGED <<args, jvars>>

NextSolve == AddFeaturesSolve

SpecSolve == InitSolve /\ [][NextSolve]_vars

\* C13: whenever an intersection that add_features computes has no solution
\* (no cross face within reach, or a plane-plane, plane-plane-plane or
\* line-plane intersection returning None), the call ends by raising JoinError
\* and nothing else, and never returns normally.
C13_NoSolutionRaisesJoinError ==
    (pc = "done" /\ args.op = "TButtJoint.add_features" /\ result.unsolved # {}) =>
        result.raised = JoinError

\* C14: for non-parallel beams that meet within max_distance, find_topology
\* returns TOPO_L with the beams in input order when both beams' ends are at
\* the meeting point, and TOPO_X with the beams in input order when neither
\* is; each beam's end is judged by the distance along that beam, with its
\* own length.
C14_LAndXInInputOrder ==
    (TopoDone /\ NotParallel(args) /\ MeetsSkew(args)) =>
        /\ (TouchesA(args) /\ TouchesB(args)) =>
                result = [topo |-> TOPO_L, main |-> "a", cross |-> "b"]
        /\ (~ TouchesA(args) /\ ~ TouchesB(args)) =>
                result = [topo |-> TOPO_X, main |-> "a", cross |-> "b"]

\* two beams cross away from their ends, with a max_distance that is less
\* than the distance from the crossing to any of the four ends
C14_Witness ==
    /\ TopoDone /\ NotParallel(args) /\ MeetsSkew(args)
    /\ args.max_distance.given
    /\ ~ TouchesA(args) /\ ~ TouchesB(args)
    /\ result.topo = TOPO_X

\* ---- recomputing two joints of a shared beam in either order

\* the joints that are recomputed with add_features, all of them on beam 1
RecomputedJoints == {TButtJoint, LButtJoint, LMiterJoint}

\* the beams and joints as they stand
Assembly == [features |-> features, blank_extensions |-> blank_extensions, joint |-> joint]

\* one recomputation of joint j: add_extensions, where the joint has it,
\* followed by add_features
Recompute(st, j, g) ==
    CASE j = TButtJoint ->
            LET e == TButtJoint_add_extensions(st.blank_extensions, st.joint[j], g)
                f == TButtJoint_add_features(st.features, e.joint, g)
            IN  [features |-> f.features, blank_extensions |-> e.blank_extensions,
                 joint |-> [st.joint EXCEPT ![j] = f.joint]]
      [] j = LButtJoint ->
            LET f == LButtJoint_add_features(st.features, st.blank_extensions,
                                             st.joint[j], g)
            IN  [features |-> f.features, blank_extensions |-> f.blank_extensions,
                 joint |-> [st.joint EXCEPT ![j] = f.joint]]
      [] j = LMiterJoint ->
            LET f == LMiterJoint_add_features(st.features, st.joint[j], g)
            IN  [features |-> f.features, blank_extensions |-> st.blank_extensions,
                 joint |-> [st.joint EXCEPT ![j] = f.joint]]

RECURSIVE RecomputeAll(_, _, _)
RecomputeAll(st, js, g) ==
    IF js = <<>> THEN st
    ELSE RecomputeAll(Recompute(st, Head(js), g), Tail(js), g)

\* what the claim compares: the extensions per beam and joint key, and the
\* set of features on each beam (which joint made it, and of which type)
Outcome(st) ==
    [blank_extensions |-> st.blank_extensions,
     features |-> [b \in BeamKeys |->
                     {[joint |-> st.features[b][i].joint, type |-> st.features[b][i].type] :
                      i \in 1..Len(st.features[b])}]]

\* the recomputations of j1 and j2, three in all, in every order
Interleavings(j1, j2) ==
    {s \in [1..3 -> {j1, j2}] : \E i \in 1..3 : s[i] = j1 /\ \E k \in 1..3 : s[k] = j2}

\* recomputing j1 then j2 and j2 then j1 give the same outcome
Commute(j1, j2) ==
    Outcome(RecomputeAll(Assembly, <<j1, j2>>, geometry))
        = Outcome(RecomputeAll(Assembly, <<j2, j1>>, geometry))

\* C15: for two joints on a shared beam, from the same state, recomputing
\* one then the other ends with the same blank extensions per joint key and
\* the same set of features on every beam as the opposite order, and so does
\* every interleaving of repeated recomputations of the two.
C15_RecomputationOrderIndependent ==
    pc = "assembly" =>
        \A j1 \in RecomputedJoints : \A j2 \in RecomputedJoints \ {j1} :
            /\ Commute(j1, j2)
            /\ \A s \in Interleavings(j1, j2) :
                  Outcome(RecomputeAll(Assembly, s, geometry))
                      = Outcome(RecomputeAll(Assembly, <<j1, j2>>, geometry))

\* ---- the amounts recorded under a joint's key, from one invocation to the next

\* the amounts of the entry e are at least those of the entry d
NotLess(e, d) == e # <<>> /\ e[1] >= d[1] /\ e[2] >= d[2]

\* C16: over any sequence of add_extensions and add_features invocations, the
\* start and end amounts recorded on a beam under a joint's key never decrease
\* from one invocation to the next, also when the T-butt joint's birdsmouth
\* flag changes in between.
C16_ExtensionsNeverDecrease ==
    [][\A b \in BeamKeys : \A j \in JointKeys :
          blank_extensions[b][j] # <<>> =>
              NotLess(blank_extensions'[b][j], blank_extensions[b][j])]_vars

\* ------------------------------------------------------------------------
\* Serialising a joint, deserialising it and restoring its beams
\* ------------------------------------------------------------------------

\* ButtJoint.__data__ (the key comes with the base class's data)
ButtJoint_data(J) ==
    [key |-> J.key, main_beam_key |-> J.main_beam_key,
     cross_beam_key |-> J.cross_beam_key, mill_depth |-> J.mill_depth,
     drill_diameter |-> J.drill_diameter, birdsmouth |-> J.birdsmouth,
     stepjoint |-> J.stepjoint]

\* ButtJoint.__from_data__: cls(**value), then the keys and parameters are set
ButtJoint_from_data(value) ==
    LET instance == ButtJoint_init(value.key, NoBeam, NoBeam, value.mill_depth,
                                   value.drill_diameter, value.birdsmouth,
                                   value.stepjoint)
    IN  [instance EXCEPT !.main_beam_key = value.main_beam_key,
                         !.cross_beam_key = value.cross_beam_key,
                         !.mill_depth = value.mill_depth,
                         !.drill_diameter = value.drill_diameter,
                         !.birdsmouth = value.birdsmouth,
                         !.stepjoint = value.stepjoint]

\* LButtJoint.__data__
LButtJoint_data(J) ==
    [key |-> J.key, main_beam_key |-> J.main_beam_key,
     cross_beam_key |-> J.cross_beam_key, extend_cross |-> J.extend_cross]

\* LButtJoint.__from_data__: cls(frame, key, gap), then the keys are set
LButtJoint_from_data(value) ==
    LET instance == LButtJoint_init(value.key, NoBeam, NoBeam, TRUE)
    IN  [instance EXCEPT !.main_beam_key = value.main_beam_key,
                         !.cross_beam_key = value.cross_beam_key]

\* LMiterJoint.data
LMiterJoint_data(J) ==
    [key |-> J.key, beam_a |-> J.beam_a_key, beam_b |-> J.beam_b_key,
     cutoff |-> J.cutoff]

\* LMiterJoint.from_data
LMiterJoint_from_data(value) ==
    LET instance == LMiterJoint_init(value.key, NoBeam, NoBeam, value.cutoff)
    IN  [instance EXCEPT !.beam_a_key = value.beam_a,
                         !.beam_b_key = value.beam_b,
                         !.cutoff = value.cutoff]

\* FrenchRidgeLapJoint.__data__
FrenchRidgeLapJoint_data(J) ==
    [key |-> J.key, main_beam_key |-> J.main_beam_key,
     cross_beam_key |-> J.cross_beam_key, drill_diameter |-> J.drill_diameter]

\* FrenchRidgeLapJoint.__from_data__
FrenchRidgeLapJoint_from_data(value) ==
    LET instance == FrenchRidgeLapJoint_init(value.key, NoBeam, NoBeam,
                                             value.drill_diameter)
    IN  [instance EXCEPT !.main_beam_key = value.main_beam_key,
                         !.cross_beam_key = value.cross_beam_key,
                         !.drill_diameter = value.drill_diameter]

\* assembly.find_by_key: the beam of the assembly with that key
find_by_key(beams, key) == IF key \in beams THEN key ELSE NoBeam

\* restore_beams_from_keys of each joint kind
restore_beams_from_keys(J, beams) ==
    IF J.key = LMiterJoint
    THEN [J EXCEPT !.beam_a = find_by_key(beams, J.beam_a_key),
                   !.beam_b = find_by_key(beams, J.beam_b_key)]
    ELSE [J EXCEPT !.main_beam = find_by_key(beams, J.main_beam_key),
                   !.cross_beam = find_by_key(beams, J.cross_beam_key)]

\* a joint written out, read back, and given its beams again
round_trip(J, beams) ==
    restore_beams_from_keys(
        CASE J.key = TButtJoint -> ButtJoint_from_data(ButtJoint_data(J))
          [] J.key = LButtJoint -> LButtJoint_from_data(LButtJoint_data(J))
          [] J.key = LMiterJoint -> LMiterJoint_from_data(LMiterJoint_data(J))
          [] J.key = FrenchRidgeLapJoint ->
                FrenchRidgeLapJoint_from_data(FrenchRidgeLapJoint_data(J)),
        beams)

Cutoffs == {NoCutoff} \cup {[given |-> TRUE, v |-> c] : c \in {0, 50}}

\* joints of every kind on two different beams of the assembly; a butt
\* joint's step-joint attribute may have been set after construction
RoundTripJoints ==
    UNION {
        {[ButtJoint_init(TButtJoint, p[1], p[2], md, dd, bm, FALSE) EXCEPT !.stepjoint = sj] :
            md \in MillDepths, dd \in DrillDiameters, bm \in BOOLEAN, sj \in BOOLEAN}
        \cup {LButtJoint_init(LButtJoint, p[1], p[2], xc) : xc \in BOOLEAN}
        \cup {LMiterJoint_init(LMiterJoint, p[1], p[2], c) : c \in Cutoffs}
        \cup {FrenchRidgeLapJoint_init(FrenchRidgeLapJoint, p[1], p[2], dd) :
                dd \in DrillDiameters} :
        p \in {q \in BeamKeys \X BeamKeys : q[1] # q[2]}}

InitRoundTrip ==
    /\ args \in [op : {"round_trip"}, joint : RoundTripJoints]
    /\ result = None
    /\ pc = "start"
    /\ NoAssembly

RoundTrip ==
    /\ pc = "start"
    /\ result' = round_trip(args.joint, BeamKeys)
    /\ pc' = "done"
    /\ UNCHANGED <<args, jvars>>

NextRoundTrip == RoundTrip

SpecRoundTrip == InitRoundTrip /\ [][NextRoundTrip]_vars

\* the beams in the joint's roles
Roles(J) ==
    IF J.key = LMiterJoint THEN <<J.beam_a, J.beam_b>> ELSE <<J.main_beam, J.cross_beam>>

\* the parameters the claim names, per joint kind
Parameters(J) ==
    CASE J.key = TButtJoint -> <<J.mill_depth, J.drill_diameter, J.birdsmouth, J.stepjoint>>
      [] J.key = LButtJoint -> <<J.extend_cross>>
      [] J.key = LMiterJoint -> <<J.cutoff>>
      [] OTHER -> <<>>

\* C17: a joint of any kind that is serialised, deserialised and given its
\* beams again by restore_beams_from_keys on the same assembly has the beams
\* of the original keys in its roles and the original's parameters
\* (mill_depth, drill_diameter, birdsmouth, stepjoint; extend_cross; cutoff).
C17_RoundTripPreservesJoint ==
    (pc = "done" /\ args.op = "round_trip") =>
        /\ Roles(result) = Roles(args.joint)
        /\ Parameters(result) = Parameters(args.joint)

\* ------------------------------------------------------------------------
\* The flags of a T-butt joint: constructor, check_joint_boolean, add_features
\* ------------------------------------------------------------------------

\* dot products of unit vectors, in thousandths
Dots == {-1000, -991, -990, -989, -500, -11, -10, -9, 0, 9, 10, 11, 500, 989, 990, 991, 1000}

\* |cross(main direction, cross direction) . cross frame normal|, in thousandths
CrossDots == {0, 500, 1000}

\* the angle at which the centerlines meet, in degrees
MeetAngles == {45, 90}

FlagArgs ==
    [op : {"check_joint_boolean"}, birdsmouth : BOOLEAN, stepjoint : BOOLEAN,
     mill_depth : MillDepths,
     \* attributes set on the joint after construction
     force_birdsmouth : BOOLEAN, stepjoint_attribute : BOOLEAN,
     zaxis_dot : Dots, cp_dot : CrossDots, meet_angle : MeetAngles]

\* the joint as constructed, with the attributes set afterwards
FlagJoint(a) ==
    LET J == ButtJoint_init(TButtJoint, 1, 2, a.mill_depth, 0, a.birdsmouth, a.stepjoint)
    IN  [J EXCEPT !.force_birdsmouth = a.force_birdsmouth,
                  !.stepjoint = IF a.stepjoint_attribute THEN TRUE ELSE @]

\* geometry on which every intersection has a solution
FlagGeometry(a) ==
    [zaxis_dot |-> a.zaxis_dot, cp_dot |-> a.cp_dot,
     face_points |-> [i \in LateralFaces |-> "near"],
     cutting_plane_found |-> TRUE, ridge_found |-> TRUE, pocket_found |-> TRUE,
     drill_point_found |-> TRUE]

InitFlags ==
    /\ args \in FlagArgs
    /\ result = None
    /\ pc = "start"
    /\ NoAssembly

\* check_joint_boolean, and what add_features attaches to bare beams after it
CheckJointBoolean ==
    /\ pc = "start"
    /\ LET J == check_joint_boolean(FlagJoint(args), FlagGeometry(args))
           r == TButtJoint_add_features([b \in BeamKeys |-> <<>>], J, FlagGeometry(args))
       IN  result' = [stepjoint |-> J.stepjoint, birdsmouth |-> J.birdsmouth,
                      mill_depth |-> J.mill_depth,
                      main |-> Types(r.features[J.main_beam]),
                      cross |-> Types(r.features[J.cross_beam])]
    /\ pc' = "done"
    /\ UNCHANGED <<args, jvars>>

NextFlags == CheckJointBoolean

SpecFlags == InitFlags /\ [][NextFlags]_vars

FlagsDone == pc = "done" /\ args.op = "check_joint_boolean"

\* C18: a T-butt joint constructed with stepjoint=True on beams that meet
\* non-perpendicularly has the step-joint flag on after check_joint_boolean,
\* birdsmouth off and mill_depth 0, and add_features attaches two subtraction
\* volumes to the main beam and one to the cross beam.
C18_StepjointRequestedIsEnabled ==
    (FlagsDone /\ args.stepjoint /\ args.meet_angle # 90) =>
        /\ result.stepjoint /\ ~result.birdsmouth /\ result.mill_depth = 0
        /\ result.main = <<"BrepSubtraction", "BrepSubtraction">>
        /\ result.cross = <<"BrepSubtraction">>

\* C19: on a joint whose step-joint flag is not active, check_joint_boolean
\* leaves birdsmouth True exactly when it was requested, force_birdsmouth is
\* set and the dot product of the frame normals is, in absolute value,
\* neither below 0.01 nor above 0.99.
C19_BirdsmouthValidity ==
    (FlagsDone /\ ~FlagJoint(args).stepjoint) =>
        (result.birdsmouth <=>
            /\ args.birdsmouth
            /\ args.force_birdsmouth
            /\ ~(Abs(args.zaxis_dot) < 10)
            /\ ~(Abs(args.zaxis_dot) > 990))

\* a requested, forced birdsmouth on frames whose normals are within 1% of
\* parallel is switched off
C19_Witness ==
    /\ FlagsDone /\ ~FlagJoint(args).stepjoint
    /\ args.birdsmouth /\ args.force_birdsmouth
    /\ args.zaxis_dot = -991
    /\ ~result.birdsmouth

\* C27: for non-parallel beams, find_topology returns (TOPO_UNKNOWN, None,
\* None) exactly when the contact points on the two segments (each
\* intersection parameter limited to [0, 1]) are farther apart than
\* max_distance, or than the fixed tolerance when max_distance is not given.
C27_UnknownIffTooFarApart ==
    (TopoDone /\ NotParallel(args)) =>
        (result = Unknown <=> ~ MeetsSkew(args))

\* beam_a ends before it reaches beam_b's line, farther from it than the
\* given max_distance
C27_Witness ==
    /\ TopoDone /\ NotParallel(args)
    /\ args.max_distance.given
    /\ LET s == ClosestParams(args.a1, args.a2, args.b1, args.b2).s IN s.n > s.d
    /\ ~ MeetsSkew(args)
    /\ result = Unknown

(***************************************************************************)
(* The classifier on beams that leave one point in nearly the same         *)
(* direction.                                                              *)
(***************************************************************************)
\* the length of the long beam; one unit of offset over it is an angle
\* below angtol
Far == 1001

\* the far end of beam_b: along beam_a or against it, short or long, on
\* beam_a's line or one unit off it
FarEnds == {<<s * x, y, 0>> : s \in {-1, 1}, x \in {1, 2, Far}, y \in {0, 1}}

\* beam_a of unit length from the origin, beam_b from the origin to a far
\* end, either beam given in either direction
NearParallelArgs ==
    {[op |-> "find_topology", a1 |-> a[1], a2 |-> a[2], b1 |-> b[1], b2 |-> b[2],
      max_distance |-> m] :
        a \in {<<<<0, 0, 0>>, <<1, 0, 0>>>>, <<<<1, 0, 0>>, <<0, 0, 0>>>>},
        b \in UNION {{<<<<0, 0, 0>>, e>>, <<e, <<0, 0, 0>>>>} : e \in FarEnds},
        m \in MaxDistances}

InitNearParallel ==
    /\ args \in NearParallelArgs
    /\ result = None
    /\ pc = "call"
    /\ NoAssembly

SpecNearParallel == InitNearParallel /\ [][NextTopo]_vars

\* the parallel test of find_topology says parallel, beam_b's line is within
\* reach of a1, and exactly one pair of ends meets
ParallelOneMeetingPair(g) ==
    /\ IsParallel(subtract_vectors(g.a2, g.a1), subtract_vectors(g.b2, g.b1))
    /\ ~ _exceed_max_distance(RPoint(g.a1, 1), closest_point_on_line(g.a1, g.b1, g.b2),
                              g.max_distance)
    /\ Cardinality(MeetingEnds(g.a1, g.a2, g.b1, g.b2, g.max_distance)) = 1

\* the vectors of the two beams from their meeting ends to their other ends
\* point the same way
OutgoingSameWay(g) ==
    LET i == CHOOSE j \in MeetingEnds(g.a1, g.a2, g.b1, g.b2, g.max_distance) : TRUE
        pa1 == <<g.a1, g.a2>>[comb[i][1] + 1]
        pa2 == <<g.a1, g.a2>>[2 - comb[i][1]]
        pb1 == <<g.b1, g.b2>>[comb[i][2] + 1]
        pb2 == <<g.b1, g.b2>>[2 - comb[i][2]]
    IN  dot_vectors(subtract_vectors(pa2, pa1), subtract_vectors(pb2, pb1)) > 0

\* C20: for beams classified as parallel with exactly one meeting pair of
\* ends, find_topology returns TOPO_UNKNOWN whenever the two beams leave the
\* shared point the same way, and TOPO_I in input order otherwise: every pair
\* the parallel test accepts and that is same-directed counts as overlapping.
C20_ParallelSameWayIsUnknown ==
    (TopoDone /\ ParallelOneMeetingPair(args)) =>
        IF OutgoingSameWay(args)
        THEN result = Unknown
        ELSE result = [topo |-> TOPO_I, main |-> "a", cross |-> "b"]

(***************************************************************************)
(* ButtJoint.side_surfaces_main                                            *)
(***************************************************************************)
MaxDir == 2

\* the normals of the four lateral faces of a beam whose axis is the x axis,
\* in the order of the faces around the axis
MainFaceNormals ==
    [i \in LateralFaces |->
        CASE i = 0 -> <<0, -1, 0>>
          [] i = 1 -> <<0, 0, -1>>
          [] i = 2 -> <<0, 1, 0>>
          [] OTHER -> <<0, 0, 1>>]

\* list.sort(key=...) on the faces 0..3 is stable: the position of face i in
\* the sorted list
SortedPosition(key, i) ==
    Cardinality({j \in LateralFaces : key[j] < key[i] \/ (key[j] = key[i] /\ j < i)})

\* ButtJoint.side_surfaces_main: the faces are sorted by
\* abs(dot(cross_vect, face.normal)), ascending, and the first two are returned
side_surfaces_main(main_direction, cross_direction, normals) ==
    LET cross_vect == cross_vectors(main_direction, cross_direction)
        key == [i \in LateralFaces |-> Abs(dot_vectors(cross_vect, normals[i]))]
    IN  [k \in 1..2 |-> CHOOSE i \in LateralFaces : SortedPosition(key, i) = k - 1]

\* directions of the cross beam that are not along the main beam
CrossDirections ==
    {d \in (-MaxDir..MaxDir) \X (-MaxDir..MaxDir) \X (-MaxDir..MaxDir) :
        cross_vectors(<<1, 0, 0>>, d) # <<0, 0, 0>>}

InitSideSurfaces ==
    /\ args \in [op : {"side_surfaces_main"}, main_direction : {<<1, 0, 0>>},
                 cross_direction : CrossDirections]
    /\ result = None
    /\ pc = "start"
    /\ NoAssembly

SideSurfacesMain ==
    /\ pc = "start"
    /\ result' = side_surfaces_main(args.main_direction, args.cross_direction,
                                    MainFaceNormals)
    /\ pc' = "done"
    /\ UNCHANGED <<args, jvars>>

NextSideSurfaces == SideSurfacesMain

SpecSideSurfaces == InitSideSurfaces /\ [][NextSideSurfaces]_vars

\* how far face i of the main beam is aligned with the cross product of the
\* two axis directions
Alignment(a, i) ==
    Abs(dot_vectors(cross_vectors(a.main_direction, a.cross_direction), MainFaceNormals[i]))

\* C21: side_surfaces_main returns the two lateral faces of the main beam
\* whose normals are most aligned with the cross product of the two axis
\* directions: no face left out has a larger |dot| than a face returned.
C21_SideFacesMostAligned ==
    (pc = "done" /\ args.op = "side_surfaces_main") =>
        \A i \in {result[1], result[2]} :
            \A j \in LateralFaces \ {result[1], result[2]} :
                Alignment(args, i) >= Alignment(args, j)

\* ---- the joint's record of its features and the beams' feature lists

\* the objects in a list
Objects(s) == {s[i] : i \in 1..Len(s)}

\* C23: after add_features of a T-butt or L-butt joint returns, every entry
\* of joint.features is an object in the feature list of exactly one of the
\* two role beams, and every feature the invocation attached to a beam is an
\* entry of joint.features.
C23_RecordIsWhatIsAttached ==
    \A j \in {TButtJoint, LButtJoint} :
        Returned(j, "add_features") =>
            /\ \A f \in Objects(joint[j].features) :
                  Cardinality({b \in RoleBeams(j) : f \in Objects(features[b])}) = 1
            /\ \A b \in RoleBeams(j) :
                  Objects(LatestFeatures(b, j)) \subseteq Objects(joint[j].features)

\* how many features of the given type joint j has on beam b
CountOf(b, j, type) ==
    Cardinality({i \in 1..Len(features[b]) :
                    features[b][i].joint = j /\ features[b][i].type = type})

\* C24: after any number n >= 1 of add_features invocations of the L-miter
\* joint, beam_a and beam_b each carry exactly one trimming feature and one
\* extension feature of this joint, and joint.features has exactly four entries.
C24_MiterFeaturesReplaced ==
    (pc = "assembly" /\ joint[LMiterJoint].calls >= 1) =>
        /\ \A b \in RoleBeams(LMiterJoint) :
              /\ CountOf(b, LMiterJoint, "BeamTrimmingFeature") = 1
              /\ CountOf(b, LMiterJoint, "BeamExtensionFeature") = 1
        /\ Len(joint[LMiterJoint].features) = 4

\* the joint has been recomputed twice, after another joint put a feature
\* on beam_a
C24_Witness ==
    /\ pc = "assembly"
    /\ joint[LMiterJoint].calls = 2
    /\ \E i \in 1..Len(features[joint[LMiterJoint].beam_a]) :
          features[joint[LMiterJoint].beam_a][i].joint # LMiterJoint
    /\ CountOf(joint[LMiterJoint].beam_b, LMiterJoint, "BeamTrimmingFeature") = 1
    /\ Len(joint[LMiterJoint].features) = 4

\* ------------------------------------------------------------------------
\* Recomputing the butt joints of a shared beam after the beams have changed
\* ------------------------------------------------------------------------

\* what can be wrong with the geometry of the beams
Defects(g) ==
    (IF g.cutting_plane_found THEN {} ELSE {"no cross face within reach"})
    \cup (IF MinKey(g.face_angles) \in LateralFaces THEN {} ELSE {"end face"})
    \cup (IF Abs(g.zaxis_dot) < 10 THEN {"frames perpendicular"} ELSE {})

\* the geometries the beams are moved between: a birdsmouth apex exists, and
\* at most one thing is wrong
RecomputeGeometries ==
    {g \in Geometries :
        /\ ApexFound(g)
        /\ \A p \in Planes : g.ext[p] = 0
        /\ Cardinality(Defects(g)) <= 1}

InitRecompute ==
    /\ geometry \in RecomputeGeometries
    /\ joint \in {js \in Assemblies :
                    /\ js[TButtJoint].mill_depth = 0
                    /\ js[TButtJoint].drill_diameter = 0
                    /\ js[LButtJoint].extend_cross}
    /\ features = [b \in BeamKeys |-> <<>>]
    /\ blank_extensions = [b \in BeamKeys |-> [j \in JointKeys |-> <<>>]]
    /\ log = <<>>
    /\ args = None
    /\ result = None
    /\ pc = "assembly"

\* the beams are moved or reshaped between two invocations
ChangeGeometry ==
    /\ Len(log) < MaxCalls
    /\ geometry' \in RecomputeGeometries \ {geometry}
    /\ log' = Append(log, Invocation("beams", "change", None))
    /\ UNCHANGED <<features, blank_extensions, joint, fvars>>

NextRecompute ==
    \/ TButtAddExtensions
    \/ TButtAddFeatures
    \/ LButtAddFeatures
    \/ ChangeGeometry

SpecRecompute == InitRecompute /\ [][NextRecompute]_vars

\* this step is add_features of joint j, and it raises JoinError
RaisesJoinError(j) == log' = Append(log, Invocation(j, "add_features", JoinError))

\* C25: when add_features of a T-butt or L-butt joint raises JoinError, the
\* feature lists and blank extensions of both role beams and the joint's own
\* features list are as they were before the call.
C25_FailedRecomputeChangesNothing ==
    [][\A j \in {TButtJoint, LButtJoint} :
          RaisesJoinError(j) =>
              /\ \A b \in RoleBeams(j) :
                    /\ features'[b] = features[b]
                    /\ blank_extensions'[b] = blank_extensions[b]
              /\ joint'[j].features = joint[j].features]_vars

\* C26: in every sequence of add_extensions and add_features invocations of
\* a T-butt joint, add_features first and invocations after a change of the
\* beams included, add_features attaches a birdsmouth subtraction volume
\* only if the validity test of check_joint_boolean holds for the geometry
\* the beams have at that time.
C26_BirdsmouthOnlyWhenValid ==
    (/\ Returned(TButtJoint, "add_features")
     /\ \E f \in Objects(LatestFeatures(joint[TButtJoint].main_beam, TButtJoint)) :
            f.type = "BrepSubtraction") =>
        ~BirdsmouthDisqualified(geometry)

(***************************************************************************)
(* ConnectionSolver.find_intersection_parameters                           *)
(***************************************************************************)

\* the ends of the beams lie on a lattice of this many length units
LatticeUnit == 100

\* compas.geometry.intersection_line_plane(line, plane, tol) for the line a b
\* and the plane through o with the normal direction n (normalized by the
\* caller): None when abs(dot(n / |n|, ab)) <= tol, else a + ab * ratio
\* (LatticeUnit is a multiple of tol)
intersection_line_plane(a, b, o, n, tol) ==
    LET ab == subtract_vectors(b, a)
        cosa == dot_vectors(n, ab)
    IN  IF (LatticeUnit \div tol) * (LatticeUnit \div tol) * cosa * cosa <= length_sq(n)
        THEN [found |-> FALSE, p |-> RPoint(a, 1)]
        ELSE LET ratio == _calc_t(a, b, o, n)
             IN  [found |-> TRUE,
                  p |-> RPoint(add_vectors(scale_vector(a, ratio.d), scale_vector(ab, ratio.n)),
                               ratio.d)]

\* compas.geometry.intersection_line_line(l1, l2, tol): the point of each line
\* in the plane that holds the other line and their common normal
intersection_line_line(l1, l2, tol) ==
    LET ab == subtract_vectors(l1.b, l1.a)
        cd == subtract_vectors(l2.b, l2.a)
        n == cross_vectors(ab, cd)
        n1 == cross_vectors(ab, n)
        n2 == cross_vectors(cd, n)
    IN  <<intersection_line_plane(l1.a, l1.b, l2.a, n2, tol),
          intersection_line_plane(l2.a, l2.b, l1.a, n1, tol)>>

\* abs(p1 - p2) < TOLERANCE for every coordinate of the two points
CoordinatesWithinTolerance(p, q) ==
    \A i \in 1..3 :
        Abs(p.n[i] * q.d - q.n[i] * p.d) <= (p.d * q.d - 1) \div (LatticeUnit * TolInv)

\* ConnectionSolver._parameter_on_line
_parameter_on_line(point, line) ==
    LET vector == subtract_vectors(line.b, line.a)
        point_vector == subtract_vectors(point.n, scale_vector(line.a, point.d))
    IN  Rat(dot_vectors(point_vector, vector), point.d * dot_vectors(vector, vector))

\* max(0, min(1, t))
stored_parameter(t) ==
    IF t.n < 0 THEN Rat(0, 1) ELSE IF t.n > t.d THEN Rat(1, 1) ELSE t

\* itertools.combinations(range(len(beams)), 2) for three beams
BeamPairs == <<<<1, 2>>, <<1, 3>>, <<2, 3>>>>

\* the body of the loop of find_intersection_parameters for one pair
intersection_parameters_of_pair(beams, intersections, pair) ==
    LET l1 == beams[pair[1]]
        l2 == beams[pair[2]]
        intersection_points == intersection_line_line(l1, l2, 10)
    IN  IF ~ intersection_points[1].found \/ ~ intersection_points[2].found
        THEN intersections
        ELSE IF CoordinatesWithinTolerance(intersection_points[1].p, intersection_points[2].p)
        THEN LET intersection_point == intersection_points[1].p
             IN  [i \in 1..Len(beams) |->
                    IF i \in {pair[1], pair[2]}
                    THEN Append(intersections[i],
                                stored_parameter(_parameter_on_line(intersection_point, beams[i])))
                    ELSE intersections[i]]
        ELSE intersections

\* ConnectionSolver.find_intersection_parameters: the beams' intersections
\* lists after the call
RECURSIVE find_intersection_parameters(_, _, _)
find_intersection_parameters(beams, intersections, k) ==
    IF k > Len(BeamPairs) THEN intersections
    ELSE find_intersection_parameters(
             beams, intersection_parameters_of_pair(beams, intersections, BeamPairs[k]), k + 1)

Centerlines(points) == {[a |-> s[1], b |-> s[2]] : s \in {t \in points \X points : t[1] # t[2]}}

InitIntersections ==
    /\ args \in [op : {"find_intersection_parameters"},
                 beams : {<<l1, l2, l3>> :
                             l1 \in {l \in Centerlines(PointsAt(0)) : l.a = <<0, 0, 0>>},
                             l2 \in UNION {Centerlines(PointsAt(z)) : z \in 0..MaxLift},
                             l3 \in {l \in Centerlines(PointsAt(0)) : l.a = <<MaxX, MaxY, 0>>}},
                 calls : {0}]
    /\ result = <<<<>>, <<>>, <<>>>>
    /\ pc = "solver"
    /\ NoAssembly

FindIntersectionParameters ==
    /\ pc = "solver"
    /\ args.calls < MaxCalls
    /\ result' = find_intersection_parameters(args.beams, result, 1)
    /\ args' = [args EXCEPT !.calls = @ + 1]
    /\ UNCHANGED <<pc, jvars>>

NextIntersections == FindIntersectionParameters

SpecIntersections == InitIntersections /\ [][NextIntersections]_vars

\* the two centerlines, as segments, have a point in common (within tolerance)
CenterlinesIntersect(l1, l2) ==
    /\ cross_vectors(subtract_vectors(l1.b, l1.a), subtract_vectors(l2.b, l2.a)) # <<0, 0, 0>>
    /\ LET t == ClosestParams(l1.a, l1.b, l2.a, l2.b)
       IN  /\ 0 <= t.s.n /\ t.s.n <= t.s.d
           /\ 0 <= t.u.n /\ t.u.n <= t.u.d
           /\ ~ ExceedsTol(distance_sq(SegmentPoint(l1.a, l1.b, t.s),
                                       SegmentPoint(l2.a, l2.b, t.u)))

\* the pairs of beam i whose centerlines intersect
IntersectingPairsOf(beams, i) ==
    {k \in 1..Len(BeamPairs) :
        /\ i \in {BeamPairs[k][1], BeamPairs[k][2]}
        /\ CenterlinesIntersect(beams[BeamPairs[k][1]], beams[BeamPairs[k][2]])}

\* C28: after any sequence of find_intersection_parameters calls every stored
\* value lies in [0, 1], and a call appends a parameter to a beam only for
\* the pairs of that beam whose centerlines intersect within tolerance:
\* nothing is appended for a pair whose centerlines do not intersect.
C28_ParametersOnlyForIntersectingPairs ==
    [][args.op = "find_intersection_parameters" =>
        \A i \in 1..Len(args.beams) :
            /\ \A k \in 1..Len(result'[i]) :
                   0 <= result'[i][k].n /\ result'[i][k].n <= result'[i][k].d
            /\ Len(result'[i]) - Len(result[i])
                   <= Cardinality(IntersectingPairsOf(args.beams, i))]_vars

(***************************************************************************)
(* The role beams of a joint and the keys stored for them                  *)
(***************************************************************************)

\* beam objects, and the keys an assembly may have given them
BeamObjects == 1..3
AssemblyKeys == 11..13
NoKey == 0

\* beam.key for a beam object, None for no beam (`beam.key if beam else None`)
key_of(keys, beam) == IF beam = NoBeam THEN NoKey ELSE keys[beam]

\* the role attributes set by ButtJoint.__init__, LMiterJoint.__init__ and
\* FrenchRidgeLapJoint.__init__ (first = main_beam / beam_a, second =
\* cross_beam / beam_b)
Joint_init_roles(kind, keys, first, second) ==
    [kind |-> kind, first |-> first, second |-> second,
     first_key |-> key_of(keys, first), second_key |-> key_of(keys, second)]

\* LButtJoint.__init__: with small_beam_butts the beam of the smaller cross
\* section becomes the main beam before the roles and keys are stored
LButtJoint_init_roles(keys, section, main_beam, cross_beam, small_beam_butts) ==
    IF small_beam_butts /\ main_beam # NoBeam /\ cross_beam # NoBeam
           /\ section[main_beam] > section[cross_beam]
    THEN Joint_init_roles(LButtJoint, keys, cross_beam, main_beam)
    ELSE Joint_init_roles(LButtJoint, keys, main_beam, cross_beam)

\* __from_data__ / from_data: an instance without beams that holds the keys
from_data_roles(J) ==
    [J EXCEPT !.first = NoBeam, !.second = NoBeam]

\* assembly.find_by_key for an assembly that holds every beam object
Assembly_find_by_key(keys, key) ==
    IF \E b \in BeamObjects : keys[b] = key
    THEN CHOOSE b \in BeamObjects : keys[b] = key
    ELSE NoBeam

\* restore_beams_from_keys
restore_roles_from_keys(J, keys) ==
    [J EXCEPT !.first = Assembly_find_by_key(keys, J.first_key),
              !.second = Assembly_find_by_key(keys, J.second_key)]

\* a variant of flip_lap that swaps the beams and leaves the keys
FrenchRidgeLapJoint_flip_lap_beams_only(J, x_dot) ==
    IF x_dot[J.first] < x_dot[J.second]
    THEN [J EXCEPT !.first = J.second, !.second = J.first]
    ELSE J
\* FrenchRidgeLapJoint.flip_lap: the joint after the call
FrenchRidgeLapJoint_flip_lap(J, x_dot) ==
    IF x_dot[J.first] < x_dot[J.second]
    THEN [J EXCEPT !.first = J.second, !.second = J.first,
                   !.first_key = J.second_key, !.second_key = J.first_key]
    ELSE J

\* injective assignments of keys to the beam objects
KeyAssignments ==
    {k \in [BeamObjects -> AssemblyKeys] : \A a, b \in BeamObjects : k[a] = k[b] => a = b}

\* joints as constructed, on any beams or none
ConstructedJoints(keys, section) ==
    UNION {
        {Joint_init_roles(kind, keys, p[1], p[2]) :
            kind \in {TButtJoint, LMiterJoint, FrenchRidgeLapJoint}}
        \cup {LButtJoint_init_roles(keys, section, p[1], p[2], sbb) : sbb \in BOOLEAN} :
        p \in {q \in (BeamObjects \cup {NoBeam}) \X (BeamObjects \cup {NoBeam}) :
                  q[1] = NoBeam \/ q[1] # q[2]}}

InitRoleKeys ==
    /\ \E keys \in KeyAssignments, section \in [BeamObjects -> Sizes],
          x_dot \in [BeamObjects -> {0, 100}] :
          /\ args = [op |-> "role_keys", keys |-> keys, section |-> section, x_dot |-> x_dot]
          /\ result \in ConstructedJoints(keys, section)
    /\ pc = "constructed"
    /\ NoAssembly

\* flip_lap (direct, or as the first step of check_geometry); without both
\* beams it raises and changes nothing
FlipLap ==
    /\ result.kind = FrenchRidgeLapJoint
    /\ result.first # NoBeam /\ result.second # NoBeam
    /\ result' = FrenchRidgeLapJoint_flip_lap(result, args.x_dot)
    /\ pc' = "flipped"
    /\ UNCHANGED <<args, jvars>>

\* the joint is written out and read back
FromData ==
    /\ result' = from_data_roles(result)
    /\ pc' = "read"
    /\ UNCHANGED <<args, jvars>>

RestoreBeamsFromKeys ==
    /\ result' = restore_roles_from_keys(result, args.keys)
    /\ pc' = "restored"
    /\ UNCHANGED <<args, jvars>>

NextRoleKeys == FlipLap \/ FromData \/ RestoreBeamsFromKeys

SpecRoleKeys == InitRoleKeys /\ [][NextRoleKeys]_vars

\* C29: in every state reachable through construction, the L-butt
\* small_beam_butts swap, flip_lap and restore_beams_from_keys, a role beam
\* that is set has the key stored for its role (main_beam_key =
\* main_beam.key, cross_beam_key = cross_beam.key; beam_a_key = beam_a.key,
\* beam_b_key = beam_b.key).
C29_StoredKeysAreRoleBeamKeys ==
    args.op = "role_keys" =>
        /\ result.first # NoBeam => result.first_key = args.keys[result.first]
        /\ result.second # NoBeam => result.second_key = args.keys[result.second]

\* a French ridge lap whose roles were swapped by flip_lap
C29_Witness ==
    /\ args.op = "role_keys"
    /\ result.kind = FrenchRidgeLapJoint
    /\ pc = "flipped"
    /\ args.x_dot[result.first] > args.x_dot[result.second]
    /\ result.first_key = args.keys[result.first]
    /\ result.second_key = args.keys[result.second]

\* the name of a beam in the call with the two beams exchanged
Exchanged(beam) == IF beam = "a" THEN "b" ELSE IF beam = "b" THEN "a" ELSE beam

\* C30: find_topology is symmetric in its beam arguments: find_topology(a, b)
\* and find_topology(b, a) return the same topology value, and for TOPO_T the
\* same main beam and the same cross beam.
C30_SymmetricInBeams ==
    TopoDone =>
        LET other == find_topology(args.b1, args.b2, args.a1, args.a2, args.max_distance)
        IN  /\ result.topo = other.topo
            /\ result.topo = TOPO_T =>
                   /\ result.main = Exchanged(other.main)
                   /\ result.cross = Exchanged(other.cross)

=============================================================================
